---- MODULE Spec2Model ----
(***************************************************************************)
(* A model of firemd's fetch-orchestration engine (src/firemd)             *)
(*                                                                         *)
(*   SpecClassify  the status classifiers is_permanent_error / is_success  *)
(*   SpecCrawl     FirecrawlClient.stream_crawl: the WebSocket phase       *)
(*                 (_stream_crawl_ws) and the HTTP polling phase           *)
(*                 (_poll_crawl) with the fallback between them            *)
(*   SpecCrawlLive stream_crawl driven to its end, every status request    *)
(*                 answered                                                *)
(*   SpecCrawlAbandon  stream_crawl with a consumer that may close the     *)
(*                 generator                                               *)
(*   SpecSeq       FirecrawlClient.scrape_urls_sequential over scrape_url  *)
(*   SpecManifest  manifest.py: save_manifest_entry and load_manifest      *)
(*   SpecScrape    cli.py: do_scrape over a url file (sequential mode),    *)
(*                 first pass, cooldown, retry pass, and a resumed run     *)
(*   SpecWriters   cli.py: the manifest entries written by do_scrape,      *)
(*                 _do_batch_scrape and do_crawl                           *)
(*   SpecCancel    cli.py: do_crawl's interrupt handling over cancel_crawl *)
(*   SpecRetry     with_retry                                              *)
(*   SpecBatch     FirecrawlClient.poll_batch                              *)
(*   SpecTwin      the two transports of stream_crawl watching one job     *)
(*                                                                         *)
(* An optional value (Python's None / a missing dict key) is a set with at *)
(* most one element: {} is None, {v} is the value v.                       *)
(***************************************************************************)
EXTENDS Integers, Sequences, FiniteSets, TLC

VARIABLES
    \* ---- is_permanent_error / is_success
    c_in,         \* the status_code argument (an optional integer)
    c_perm,       \* result of is_permanent_error(c_in), {} before the call
    c_succ,       \* result of is_success(c_in), {} before the call
    c_md,         \* the markdown of a ScrapeResult whose status_code is c_in
    c_res,        \* result of ScrapeResult.success, {} before the call
    \* ---- stream_crawl
    pc,           \* position of the stream_crawl generator
    job_id,       \* the job_id argument
    job,          \* the CrawlJob object last built/updated (total, completed, status)
    seen_urls,    \* _poll_crawl's seen_urls set
    new_results,  \* _poll_crawl's new_results list of the running poll cycle (urls)
    cycle_got,    \* history: non-empty page URLs the running poll cycle was sent
    out,          \* history: the tuples yielded so far
    ws_open,      \* TRUE while the websocket connection is open
    ws_error,     \* self._ws_error (an optional string)
    exc,          \* the exception stream_crawl raised, {} if none
    polled,       \* history: job ids of the GET /v1/crawl/{id} requests issued
    fail_at,      \* history: Len(out) when the push phase failed, {} if it did not
    nEvents,      \* number of frames and HTTP responses consumed so far
    io,           \* history: what the run did, in order (frames read, requests,
                  \* sleeps, yields)
    \* ---- scrape_urls_sequential
    spc,          \* position of the scrape_urls_sequential generator
    urls,         \* the urls argument
    max_retries,  \* the max_retries argument
    max_backoff,  \* the max_backoff argument (seconds)
    delay,        \* the delay argument (seconds)
    on_retry,     \* TRUE when an on_retry callback is passed
    i,            \* index of the current url (1-based)
    attempt,      \* the inner loop variable
    result,       \* the ScrapeResult of the last attempt, {} for None
    permanent,    \* the local flag
    retry_count,  \* the local counter
    sout,         \* history: the tuples yielded so far
    fetches,      \* history: every scrape_url call (index, url, returned status)
    sleeps,       \* history: every time.sleep call, in order
    retry_calls,  \* history: the on_retry calls made, in order
    \* ---- manifest.py
    m_file,       \* the lines of manifest.jsonl
    m_written,    \* history: per line, the entry save_manifest_entry was given
    m_loaded,     \* what load_manifest returned, {} before the call
    \* ---- do_scrape
    dpc,                \* position of the do_scrape process
    d_input,            \* the urls parsed from the url file
    overwrite,          \* the overwrite flag of the process
    d_max_retries,      \* the max_retries option
    manifest,           \* the lines of manifest.jsonl in the output directory
    errors,             \* the lines of errors.jsonl in the output directory
    existing_manifest,  \* the local dict
    d_urls,             \* the local urls list
    d_k,                \* urls of the running pass already worked on
    retryable_failures, \* the local list of (url, index)
    d_run,              \* ordinal of the process
    d_log,              \* history: the submissions of this process
    d_fetched,          \* history: this process has called scrape_url
    d_mark,             \* history: lengths of the two files when the process began
    d_cooldowns,        \* history: time.sleep(30) calls of this process
    prev_all_ok,        \* history: the previous process left every url successful
    \* ---- do_crawl / cancel_crawl
    kpc,               \* position of do_crawl's try block
    crawl_job,         \* the local crawl_job: {} for None, else the job id in a set
    k_tuples,          \* tuples of stream_crawl handled so far
    k_interrupted,     \* history: a KeyboardInterrupt was raised
    k_attempt,         \* with_retry's loop variable inside cancel_crawl
    k_last_exception,  \* with_retry's last_exception
    k_deletes,         \* history: job ids of the DELETE requests sent
    k_sleeps,          \* history: the time.sleep calls of with_retry
    k_swallowed,       \* history: the exception cancel_crawl swallowed
    k_escaped,         \* the exception that left cancel_crawl, {} if none
    \* ---- poll_batch
    bpc,          \* position of the poll_batch generator
    b_seen,       \* its seen_urls set
    b_out,        \* history: the tuples yielded so far
    b_requests,   \* history: the HTTP requests issued
    b_exc,        \* the exception poll_batch raised, {} if none
    \* ---- the two transports side by side
    tw_deliv,       \* the page dicts the job delivers, in order
    tw_final,       \* the status the job ends with
    tw_ws_n,        \* deliveries the WebSocket run has received
    tw_ws_out,      \* history: page urls the WebSocket run has yielded
    tw_ws_status,   \* status of the tuple that ended the WebSocket run, {} before
    tw_poll_n,      \* deliveries listed by the last status response
    tw_seen,        \* seen_urls of the polling run
    tw_poll_out,    \* history: page urls the polling run has yielded
    tw_poll_status, \* status of the tuple that ended the polling run, {} before
    \* ---- with_retry
    wpc,               \* position in with_retry
    w_max_retries,     \* its max_retries argument
    w_base_delay,      \* its base_delay argument
    w_max_delay,       \* its max_delay argument
    w_attempt,         \* its loop variable
    w_last_exception,  \* its last_exception
    w_calls,           \* history: what each call of func ended in
    w_sleeps,          \* history: the time.sleep calls
    w_result           \* what with_retry returned or raised, {} before

clsVars == <<c_in, c_perm, c_succ, c_md, c_res>>
crawlVars == <<pc, job_id, job, seen_urls, new_results, cycle_got, out, ws_open,
               ws_error, exc, polled, fail_at, nEvents, io>>
seqVars == <<spc, urls, max_retries, max_backoff, delay, on_retry, i, attempt, result,
             permanent, retry_count, sout, fetches, sleeps, retry_calls>>
manVars == <<m_file, m_written, m_loaded>>
scrapeVars == <<dpc, d_input, overwrite, d_max_retries, manifest, errors,
                existing_manifest, d_urls, d_k, retryable_failures, d_run, d_log,
                d_fetched, d_mark, d_cooldowns, prev_all_ok>>
cancelVars == <<kpc, crawl_job, k_tuples, k_interrupted, k_attempt,
                k_last_exception, k_deletes, k_sleeps, k_swallowed, k_escaped>>
batchVars == <<bpc, b_seen, b_out, b_requests, b_exc>>
twinVars == <<tw_deliv, tw_final, tw_ws_n, tw_ws_out, tw_ws_status, tw_poll_n,
              tw_seen, tw_poll_out, tw_poll_status>>
retryVars == <<wpc, w_max_retries, w_base_delay, w_max_delay, w_attempt,
               w_last_exception, w_calls, w_sleeps, w_result>>
vars == <<clsVars, crawlVars, seqVars, manVars, scrapeVars, cancelVars, batchVars,
          twinVars, retryVars>>

\* what each part of the program leaves alone
notCls ==
    <<crawlVars, seqVars, manVars, scrapeVars, cancelVars, batchVars, twinVars, retryVars>>
notCrawl ==
    <<clsVars, seqVars, manVars, scrapeVars, cancelVars, batchVars, twinVars, retryVars>>
notSeq ==
    <<clsVars, crawlVars, manVars, scrapeVars, cancelVars, batchVars, twinVars, retryVars>>
notManifest ==
    <<clsVars, crawlVars, seqVars, scrapeVars, cancelVars, batchVars, twinVars,
      retryVars>>
notRetry ==
    <<clsVars, crawlVars, seqVars, manVars, scrapeVars, cancelVars, batchVars,
      twinVars>>
notScrape ==
    <<clsVars, crawlVars, seqVars, manVars, cancelVars, batchVars, twinVars, retryVars>>
notCancel ==
    <<clsVars, crawlVars, seqVars, manVars, scrapeVars, batchVars, twinVars, retryVars>>
notBatch ==
    <<clsVars, crawlVars, seqVars, manVars, scrapeVars, cancelVars, twinVars, retryVars>>
notTwin ==
    <<clsVars, crawlVars, seqVars, manVars, scrapeVars, cancelVars, batchVars, retryVars>>

None == {}
Some(v) == {v}
\* dict.get(key, default) / "x if x is not None else default"
Get(opt, default) == IF opt = {} THEN default ELSE CHOOSE v \in opt : TRUE

(***************************************************************************)
(* Bounds of the model                                                     *)
(***************************************************************************)
MaxStatus == 600      \* status codes 0..MaxStatus are classified
MaxEvents == 2        \* frames + HTTP responses of a crawl job before only its end is left
MaxDocs == 2          \* pages carried by one catchup frame / one HTTP response
MaxUrls == 2          \* length of the urls argument of scrape_urls_sequential
MaxRetriesArg == 2    \* largest max_retries argument
MaxLines == 3         \* lines of manifest.jsonl before it is loaded
MaxPrior == 2         \* lines of manifest.jsonl before the first do_scrape process
MaxScrapeRetries == 1 \* largest --max-retries of a do_scrape process
MaxRuns == 2          \* do_scrape processes in a row
MaxTuples == 3        \* tuples of stream_crawl handled by do_crawl before it ends
MaxCycles == 2        \* status requests of one poll_batch run
MaxDeliveries == 3    \* page deliveries of the job the two transports watch

(***************************************************************************)
(* Defaults of the program                                                 *)
(***************************************************************************)
ClientMaxRetries == 3 \* FirecrawlClient(max_retries=3)
MaxDelay == 30        \* with_retry(max_delay=30.0)

(***************************************************************************)
(* src/firemd/firecrawl.py: status classification                          *)
(***************************************************************************)
StatusCodes == 0..MaxStatus
OptStatus == {None} \cup {Some(c) : c \in StatusCodes}

\* is_permanent_error with the 408/429 exception dropped
is_permanent_error_no_exception(status_code) ==
    IF status_code = None THEN FALSE
    ELSE LET c == Get(status_code, 0) IN (400 <= c /\ c < 500)

\* is_permanent_error testing the 5xx range instead of the 4xx range
is_permanent_error_5xx(status_code) ==
    IF status_code = None THEN FALSE
    ELSE LET c == Get(status_code, 0) IN (500 <= c /\ c < 600)

is_permanent_error(status_code) ==
    IF status_code = None THEN FALSE
    ELSE LET c == Get(status_code, 0) IN
         IF 400 <= c /\ c < 500 /\ c \notin {408, 429} THEN TRUE ELSE FALSE

is_success(status_code) ==
    IF status_code = None THEN FALSE
    ELSE LET c == Get(status_code, 0) IN (200 <= c /\ c < 300)

\* ScrapeResult.success judging by the status alone
success_status_only(r) == is_success(r.status_code)

\* ScrapeResult.success: is_success(self.status_code) and bool(self.markdown)
success(r) == is_success(r.status_code) /\ r.markdown # ""

\* the markdown strings told apart: empty and non-empty
Markdowns == {"", "md"}

InitClassify ==
    /\ c_in \in OptStatus
    /\ c_md \in Markdowns
    /\ c_perm = None
    /\ c_succ = None
    /\ c_res = None

IdleClassify ==
    /\ c_in = None
    /\ c_md = ""
    /\ c_perm = None
    /\ c_succ = None
    /\ c_res = None

CallIsPermanentError ==
    /\ c_perm = None
    /\ c_perm' = Some(is_permanent_error(c_in))
    /\ UNCHANGED <<c_in, c_succ, c_md, c_res>>
    /\ UNCHANGED notCls

CallIsSuccess ==
    /\ c_succ = None
    /\ c_succ' = Some(is_success(c_in))
    /\ UNCHANGED <<c_in, c_perm, c_md, c_res>>
    /\ UNCHANGED notCls

CallSuccess ==
    /\ c_res = None
    /\ c_res' = Some(success([status_code |-> c_in, markdown |-> c_md]))
    /\ UNCHANGED <<c_in, c_perm, c_succ, c_md>>
    /\ UNCHANGED notCls

(***************************************************************************)
(* src/firemd/firecrawl.py: stream_crawl, _stream_crawl_ws, _poll_crawl    *)
(***************************************************************************)
JobIds == {"job-1"}
Urls == {"A", "B"}

\* A page dict as the backend sends it: metadata.sourceURL and url may each be
\* missing; other says whether the dict has any other key (markdown, ...).
Items ==
    { [sourceURL |-> Some("A"), url |-> None,      other |-> TRUE],
      [sourceURL |-> None,      url |-> Some("B"), other |-> TRUE],
      [sourceURL |-> Some("B"), url |-> Some("A"), other |-> TRUE],
      [sourceURL |-> None,      url |-> None,      other |-> TRUE],
      [sourceURL |-> None,      url |-> None,      other |-> FALSE] }

\* bool(d) of a page dict: an empty dict is falsy
Truthy(item) == item.sourceURL # None \/ item.url # None \/ item.other

ItemLists == UNION {[1..n -> Items] : n \in 0..MaxDocs}

\* _parse_doc(item).url: metadata.get("sourceURL", item.get("url", ""))
parse_doc(item) == Get(item.sourceURL, Get(item.url, ""))

\* the (total, completed, status) keys of a catchup frame, each possibly missing
CatchupHeaders ==
    { [total |-> None,    completed |-> None,    status |-> None],
      [total |-> Some(2), completed |-> Some(1), status |-> Some("scraping")],
      [total |-> Some(2), completed |-> None,    status |-> Some("completed")] }

\* the (total, completed, status) keys of a GET /v1/crawl/{id} response
PollHeaders ==
    { [total |-> None, completed |-> None, status |-> None] } \cup
    { [total |-> Some(2), completed |-> Some(1), status |-> Some(s)] :
        s \in {"scraping", "completed", "failed", "cancelled"} }

\* the terminal statuses with "scraping" wrongly counted among them
TerminalStatusesWithScraping == {"completed", "failed", "cancelled", "scraping"}

\* if status in ("completed", "failed", "cancelled"): break
TerminalStatuses == {"completed", "failed", "cancelled"}

\* [parse_doc(d) for d in docs if d]
RECURSIVE ParseDocs(_)
ParseDocs(docs) ==
    IF docs = <<>> THEN <<>>
    ELSE LET d == Head(docs) IN
         IF Truthy(d) THEN <<parse_doc(d)>> \o ParseDocs(Tail(docs))
         ELSE ParseDocs(Tail(docs))

\* the dedup loop of _poll_crawl with the membership test dropped
RECURSIVE ExtractNewNoSeenTest(_, _, _)
ExtractNewNoSeenTest(items, seen, acc) ==
    IF items = <<>> THEN [seen |-> seen, res |-> acc]
    ELSE LET url == parse_doc(Head(items)) IN
         IF url # ""
         THEN ExtractNewNoSeenTest(Tail(items), seen \cup {url}, Append(acc, url))
         ELSE ExtractNewNoSeenTest(Tail(items), seen, acc)

\* for item in data_list: if url and url not in seen_urls: add, append
RECURSIVE ExtractNew(_, _, _)
ExtractNew(items, seen, acc) ==
    IF items = <<>> THEN [seen |-> seen, res |-> acc]
    ELSE LET url == parse_doc(Head(items)) IN
         IF url # "" /\ url \notin seen
         THEN ExtractNew(Tail(items), seen \cup {url}, Append(acc, url))
         ELSE ExtractNew(Tail(items), seen, acc)

\* the non-empty page URLs a list of page dicts carries
UrlsOf(items) == {parse_doc(items[k]) : k \in 1..Len(items)} \ {""}
Range(s) == {s[k] : k \in 1..Len(s)}

\* The job is finite: once MaxEvents frames and responses have been consumed
\* the backend has nothing more to report than the end of the job, that is a
\* "done" or "error" frame, a status response with a final status and no
\* continuation link, or a continuation page without a further link.
JobOver(status, next) ==
    status \in {Some("completed"), Some("failed"), Some("cancelled")} /\ ~next

\* one yielded (job, results) tuple as the consumer sees it on receipt
Tuple(src, status, res, got) ==
    [src |-> src, status |-> status, urls |-> res, got |-> got]

InitCrawl ==
    /\ pc = "connect"
    /\ job_id \in JobIds
    /\ job = [total |-> 0, completed |-> 0, status |-> "pending"]
    /\ seen_urls = {}
    /\ new_results = <<>>
    /\ cycle_got = {}
    /\ out = <<>>
    /\ ws_open = FALSE
    /\ ws_error = None
    /\ exc = None
    /\ polled = {}
    /\ fail_at = None
    /\ nEvents = 0
    /\ io = <<>>

IdleCrawl ==
    /\ pc = "idle"
    /\ job_id = "job-1"
    /\ job = [total |-> 0, completed |-> 0, status |-> "pending"]
    /\ seen_urls = {}
    /\ new_results = <<>>
    /\ cycle_got = {}
    /\ out = <<>>
    /\ ws_open = FALSE
    /\ ws_error = None
    /\ exc = None
    /\ polled = {}
    /\ fail_at = None
    /\ nEvents = 0
    /\ io = <<>>

\* stream_crawl's handler with the exception propagated instead of caught
FallbackPropagates ==
    /\ pc' = "raised"
    /\ exc' = Some("WebSocketError")
    /\ fail_at' = Some(Len(out))
    /\ UNCHANGED <<ws_error, seen_urls, new_results, cycle_got>>

\* stream_crawl: except Exception as e: self._ws_error = str(e);
\* yield from self._poll_crawl(job_id, poll_interval), which starts with
\* seen_urls = set()
Fallback ==
    /\ ws_error' = Some("ws failed")
    /\ fail_at' = Some(Len(out))
    /\ seen_urls' = {}
    /\ new_results' = <<>>
    /\ cycle_got' = {}
    /\ pc' = "poll"
    /\ exc' = exc

\* websocket.create_connection returns: job = CrawlJob(job_id, status="scraping")
WsConnect ==
    /\ pc = "connect"
    /\ ws_open' = TRUE
    /\ job' = [total |-> 0, completed |-> 0, status |-> "scraping"]
    /\ pc' = "recv"
    /\ UNCHANGED <<job_id, seen_urls, new_results, cycle_got, out, ws_error,
                   exc, polled, fail_at, nEvents>>
    /\ io' = Append(io, "connect")
    /\ UNCHANGED notCrawl

\* websocket.create_connection raises
WsConnectFail ==
    /\ pc = "connect"
    /\ Fallback
    /\ UNCHANGED <<job_id, job, out, ws_open, polled, nEvents>>
    /\ io' = Append(io, "connect_fail")
    /\ UNCHANGED notCrawl

\* a "document" frame
WsDocument ==
    /\ pc = "recv"
    /\ nEvents < MaxEvents
    /\ \E item \in Items :
         LET url == parse_doc(item) IN
         /\ job' = [job EXCEPT !.completed = @ + 1]
         /\ out' = Append(out, Tuple("ws", job.status, <<url>>, {url} \ {""}))
    /\ nEvents' = nEvents + 1
    /\ UNCHANGED <<pc, job_id, seen_urls, new_results, cycle_got, ws_open,
                   ws_error, exc, polled, fail_at>>
    /\ io' = io \o <<"document", "yield">>
    /\ UNCHANGED notCrawl

\* a "catchup" frame handled with the yield skipped when it lists no page
WsCatchupSkipsEmpty ==
    /\ pc = "recv"
    /\ nEvents < MaxEvents
    /\ \E h \in CatchupHeaders, docs \in ItemLists :
         LET results == ParseDocs(docs) IN
         /\ job' = [total |-> Get(h.total, job.total),
                    completed |-> Get(h.completed, job.completed),
                    status |-> Get(h.status, job.status)]
         /\ IF results = <<>>
            THEN /\ out' = out
                 /\ io' = Append(io, "catchup")
            ELSE /\ out' = Append(out, Tuple("ws", job'.status, results,
                                             Range(results) \ {""}))
                 /\ io' = io \o <<"catchup", "yield">>
    /\ nEvents' = nEvents + 1
    /\ UNCHANGED <<pc, job_id, seen_urls, new_results, cycle_got, ws_open,
                   ws_error, exc, polled, fail_at>>
    /\ UNCHANGED notCrawl

\* a "catchup" frame
WsCatchup ==
    /\ pc = "recv"
    /\ nEvents < MaxEvents
    /\ \E h \in CatchupHeaders, docs \in ItemLists :
         LET results == ParseDocs(docs) IN
         /\ job' = [total |-> Get(h.total, job.total),
                    completed |-> Get(h.completed, job.completed),
                    status |-> Get(h.status, job.status)]
         /\ out' = Append(out, Tuple("ws", job'.status, results,
                                     Range(results) \ {""}))
    /\ nEvents' = nEvents + 1
    /\ UNCHANGED <<pc, job_id, seen_urls, new_results, cycle_got, ws_open,
                   ws_error, exc, polled, fail_at>>
    /\ io' = io \o <<"catchup", "yield">>
    /\ UNCHANGED notCrawl

\* a "done" frame: yield, break, finally ws.close()
WsDone ==
    /\ pc = "recv"
    /\ job' = [job EXCEPT !.status = "completed"]
    /\ out' = Append(out, Tuple("ws", "completed", <<>>, {}))
    /\ ws_open' = FALSE
    /\ pc' = "done"
    /\ nEvents' = nEvents + 1
    /\ UNCHANGED <<job_id, seen_urls, new_results, cycle_got, ws_error, exc,
                   polled, fail_at>>
    /\ io' = io \o <<"done", "yield">>
    /\ UNCHANGED notCrawl

\* an "error" frame treated as a failure of the transport: close, fall back
WsErrorFallsBack ==
    /\ pc = "recv"
    /\ ws_open' = FALSE
    /\ Fallback
    /\ nEvents' = nEvents + 1
    /\ io' = Append(io, "error")
    /\ UNCHANGED <<job_id, job, out, polled>>
    /\ UNCHANGED notCrawl

\* an "error" frame: yield, break, finally ws.close()
WsError ==
    /\ pc = "recv"
    /\ job' = [job EXCEPT !.status = "failed"]
    /\ out' = Append(out, Tuple("ws", "failed", <<>>, {}))
    /\ ws_open' = FALSE
    /\ pc' = "done"
    /\ nEvents' = nEvents + 1
    /\ UNCHANGED <<job_id, seen_urls, new_results, cycle_got, ws_error, exc,
                   polled, fail_at>>
    /\ io' = io \o <<"error", "yield">>
    /\ UNCHANGED notCrawl

\* a frame of an unknown type raising: finally ws.close(), then the handler of
\* stream_crawl
WsIgnoredRaises ==
    /\ pc = "recv"
    /\ nEvents < MaxEvents
    /\ ws_open' = FALSE
    /\ Fallback
    /\ nEvents' = nEvents + 1
    /\ io' = Append(io, "ignored")
    /\ UNCHANGED <<job_id, job, out, polled>>
    /\ UNCHANGED notCrawl

\* an empty frame (continue) or a frame of any other type (no branch taken)
WsIgnored ==
    /\ pc = "recv"
    /\ nEvents < MaxEvents
    /\ nEvents' = nEvents + 1
    /\ UNCHANGED <<pc, job_id, job, seen_urls, new_results, cycle_got, out,
                   ws_open, ws_error, exc, polled, fail_at>>
    /\ io' = Append(io, "ignored")
    /\ UNCHANGED notCrawl

\* ws.recv() or json.loads() raises and the connection is left as it is
WsReadFailLeavesOpen ==
    /\ pc = "recv"
    /\ ws_open' = ws_open
    /\ Fallback
    /\ UNCHANGED <<job_id, job, out, polled, nEvents>>
    /\ io' = Append(io, "recv_fail")
    /\ UNCHANGED notCrawl

\* ws.recv() or json.loads() raises: finally ws.close(), then the handler of
\* stream_crawl
WsReadFail ==
    /\ pc = "recv"
    /\ ws_open' = FALSE
    /\ Fallback
    /\ UNCHANGED <<job_id, job, out, polled, nEvents>>
    /\ io' = Append(io, "recv_fail")
    /\ UNCHANGED notCrawl

\* the end of a poll cycle without the time.sleep(poll_interval)
PollYieldNoSleep(status, res, got) ==
    /\ out' = Append(out, Tuple("poll", status, res, got))
    /\ new_results' = <<>>
    /\ cycle_got' = {}
    /\ pc' = IF status \in TerminalStatuses THEN "done" ELSE "poll"

\* yield job, new_results; if status in (...): break; time.sleep(poll_interval)
PollYield(status, res, got) ==
    /\ out' = Append(out, Tuple("poll", status, res, got))
    /\ new_results' = <<>>
    /\ cycle_got' = {}
    /\ pc' = IF status \in TerminalStatuses THEN "done" ELSE "sleep"

\* the status request of a poll cycle succeeds
PollFetch ==
    /\ pc = "poll"
    /\ \E h \in PollHeaders, data \in ItemLists, next \in BOOLEAN :
         LET status == Get(h.status, "unknown")
             e == ExtractNew(data, seen_urls, <<>>)
         IN
         /\ nEvents < MaxEvents \/ JobOver(h.status, next)
         /\ job' = [total |-> Get(h.total, 0),
                    completed |-> Get(h.completed, 0),
                    status |-> status]
         /\ seen_urls' = e.seen
         /\ IF next
            THEN /\ new_results' = e.res
                 /\ cycle_got' = UrlsOf(data)
                 /\ pc' = "page"
                 /\ out' = out
                 /\ io' = Append(io, "status")
            ELSE /\ PollYield(status, e.res, UrlsOf(data))
                 /\ io' = io \o <<"status", "yield">>
    /\ polled' = polled \cup {job_id}
    /\ nEvents' = nEvents + 1
    /\ UNCHANGED <<job_id, ws_open, ws_error, exc, fail_at>>
    /\ UNCHANGED notCrawl

\* the failed status request taken for a passing fault: sleep and poll again
PollFetchFailPollsAgain ==
    /\ pc = "poll"
    /\ pc' = "sleep"
    /\ polled' = polled \cup {job_id}
    /\ UNCHANGED <<job_id, job, seen_urls, new_results, cycle_got, out, ws_open,
                   ws_error, exc, fail_at, nEvents>>
    /\ io' = Append(io, "status_fail")
    /\ UNCHANGED notCrawl

\* the status request fails: raise FirecrawlError
PollFetchFail ==
    /\ pc = "poll"
    /\ pc' = "raised"
    /\ exc' = Some("FirecrawlError")
    /\ polled' = polled \cup {job_id}
    /\ UNCHANGED <<job_id, job, seen_urls, new_results, cycle_got, out, ws_open,
                   ws_error, fail_at, nEvents>>
    /\ io' = Append(io, "status_fail")
    /\ UNCHANGED notCrawl

\* the pagination loop yielding after every page it fetches
PageFetchYieldsEachPage ==
    /\ pc = "page"
    /\ \E data \in ItemLists, next \in BOOLEAN :
         LET e == ExtractNew(data, seen_urls, <<>>) IN
         /\ nEvents < MaxEvents \/ ~next
         /\ seen_urls' = e.seen
         /\ out' = Append(out, Tuple("poll", job.status, e.res, UrlsOf(data)))
         /\ new_results' = <<>>
         /\ cycle_got' = {}
         /\ pc' = IF next THEN "page"
                  ELSE IF job.status \in TerminalStatuses THEN "done" ELSE "sleep"
    /\ nEvents' = nEvents + 1
    /\ io' = io \o <<"page", "yield">>
    /\ UNCHANGED <<job_id, job, ws_open, ws_error, exc, polled, fail_at>>
    /\ UNCHANGED notCrawl

\* a pagination request (status_data["next"]) succeeds
PageFetch ==
    /\ pc = "page"
    /\ \E data \in ItemLists, next \in BOOLEAN :
         LET e == ExtractNew(data, seen_urls, new_results) IN
         /\ nEvents < MaxEvents \/ ~next
         /\ seen_urls' = e.seen
         /\ IF next
            THEN /\ new_results' = e.res
                 /\ cycle_got' = cycle_got \cup UrlsOf(data)
                 /\ pc' = "page"
                 /\ out' = out
                 /\ io' = Append(io, "page")
            ELSE /\ PollYield(job.status, e.res, cycle_got \cup UrlsOf(data))
                 /\ io' = io \o <<"page", "yield">>
    /\ nEvents' = nEvents + 1
    /\ UNCHANGED <<job_id, job, ws_open, ws_error, exc, polled, fail_at>>
    /\ UNCHANGED notCrawl

\* the pagination handler re-raising as a FirecrawlError instead of breaking
PageFetchFailRaises ==
    /\ pc = "page"
    /\ pc' = "raised"
    /\ exc' = Some("FirecrawlError")
    /\ io' = Append(io, "page_fail")
    /\ UNCHANGED <<job_id, job, seen_urls, new_results, cycle_got, out, ws_open,
                   ws_error, polled, fail_at, nEvents>>
    /\ UNCHANGED notCrawl

\* the pagination handler dropping the pages of the cycle when it breaks
PageFetchFailDropsPages ==
    /\ pc = "page"
    /\ PollYield(job.status, <<>>, cycle_got)
    /\ UNCHANGED <<job_id, job, seen_urls, ws_open, ws_error, exc, polled,
                   fail_at, nEvents>>
    /\ io' = io \o <<"page_fail", "yield">>
    /\ UNCHANGED notCrawl

\* a pagination request fails: except Exception: break
PageFetchFail ==
    /\ pc = "page"
    /\ PollYield(job.status, new_results, cycle_got)
    /\ UNCHANGED <<job_id, job, seen_urls, ws_open, ws_error, exc, polled,
                   fail_at, nEvents>>
    /\ io' = io \o <<"page_fail", "yield">>
    /\ UNCHANGED notCrawl

\* time.sleep(poll_interval) returns
PollSleep ==
    /\ pc = "sleep"
    /\ pc' = "poll"
    /\ UNCHANGED <<job_id, job, seen_urls, new_results, cycle_got, out, ws_open,
                   ws_error, exc, polled, fail_at, nEvents>>
    /\ io' = Append(io, "sleep")
    /\ UNCHANGED notCrawl

\* The consumer gives up the generator while it is suspended at a yield
\* (generator.close(), or the generator being collected after the consumer's
\* loop was left by an exception): GeneratorExit is raised at the yield, which
\* "except Exception" in stream_crawl does not catch, and in the push phase
\* "finally: ws.close()" runs on the way out. A generator suspended at the
\* yield of a done or error frame is closed the same way; WsDone and WsError
\* have its connection closed with the yield already.
ConsumerCloses ==
    /\ \/ pc = "recv" /\ io # <<>> /\ io[Len(io)] = "yield"
       \/ pc = "sleep"
    /\ ws_open' = FALSE
    /\ pc' = "closed"
    /\ io' = Append(io, "close")
    /\ UNCHANGED <<job_id, job, seen_urls, new_results, cycle_got, out,
                   ws_error, exc, polled, fail_at, nEvents>>
    /\ UNCHANGED notCrawl

\* stream_crawl with a consumer that may give up the stream
NextCrawlAbandon ==
    \/ WsConnect
    \/ WsConnectFail
    \/ WsDocument
    \/ WsCatchup
    \/ WsDone
    \/ WsError
    \/ WsIgnored
    \/ WsReadFail
    \/ PollFetch
    \/ PollFetchFail
    \/ PageFetch
    \/ PageFetchFail
    \/ PollSleep
    \/ ConsumerCloses

NextCrawl ==
    \/ WsConnect
    \/ WsConnectFail
    \/ WsDocument
    \/ WsCatchup
    \/ WsDone
    \/ WsError
    \/ WsIgnored
    \/ WsReadFail
    \/ PollFetch
    \/ PollFetchFail
    \/ PageFetch
    \/ PageFetchFail
    \/ PollSleep

(***************************************************************************)
(* src/firemd/firecrawl.py: scrape_url, scrape_urls_sequential             *)
(***************************************************************************)
SeqUrls == {"A", "B"}
UrlLists == UNION {[1..n -> SeqUrls] : n \in 0..MaxUrls}
BackoffCaps == {1, 32}
Delays == {0, 1}

\* What self._make_request("POST", "/v1/scrape") ends in: an HTTPStatusError
\* (kind "http_error"), an httpx.RequestError (kind "request_error"), or a JSON
\* body {success, data: {markdown, metadata: {sourceURL, statusCode}}}.
Resp(kind, code, ok, markdown, statusCode, sourceURL) ==
    [kind |-> kind, code |-> code, success |-> ok, markdown |-> markdown,
     statusCode |-> statusCode, sourceURL |-> sourceURL]

ApiResponses ==
    { Resp("http_error", 404, FALSE, "", None, None),
      Resp("request_error", 0, FALSE, "", None, None),
      Resp("body", 0, FALSE, "", None, None),
      Resp("body", 0, TRUE, "md", Some(200), Some("Z")),
      Resp("body", 0, TRUE, "", Some(200), None),
      Resp("body", 0, TRUE, "md", Some(404), None),
      Resp("body", 0, TRUE, "md", Some(429), None) }

\* the exceptions _make_request raises out of with_retry, and the ones the
\* except clauses of scrape_url turn into a ScrapeResult
ExceptionKinds == {"http_error", "request_error"}

\* scrape_url without its "except httpx.RequestError" clause
CaughtKindsNoRequestError == {"http_error"}

CaughtKinds == {"http_error", "request_error"}

\* TRUE when scrape_url lets the exception of this response escape
Raises(resp) == resp.kind \in ExceptionKinds \ CaughtKinds

ScrapeResult(url, markdown, source_url, status_code, error) ==
    [url |-> url, markdown |-> markdown, source_url |-> source_url,
     status_code |-> status_code, error |-> error]

\* scrape_url with the ScrapeResult's url taken from metadata.sourceURL
scrape_url_source_url(url, resp) ==
    IF resp.kind = "http_error"
    THEN ScrapeResult(url, "", None, None, Some("HTTP error"))
    ELSE IF resp.kind = "request_error"
    THEN ScrapeResult(url, "", None, None, Some("Request failed"))
    ELSE IF ~resp.success
    THEN ScrapeResult(url, "", None, None, Some("Unknown error"))
    ELSE ScrapeResult(Get(resp.sourceURL, url), resp.markdown,
                      Some(Get(resp.sourceURL, url)), resp.statusCode, None)

\* scrape_url with the status of the backend's HTTP error response put into
\* the ScrapeResult
scrape_url_http_status(url, resp) ==
    IF resp.kind = "http_error"
    THEN ScrapeResult(url, "", None, Some(resp.code), Some("HTTP error"))
    ELSE IF resp.kind = "request_error"
    THEN ScrapeResult(url, "", None, None, Some("Request failed"))
    ELSE IF ~resp.success
    THEN ScrapeResult(url, "", None, None, Some("Unknown error"))
    ELSE ScrapeResult(url, resp.markdown, Some(Get(resp.sourceURL, url)),
                      resp.statusCode, None)

scrape_url(url, resp) ==
    IF resp.kind = "http_error"
    THEN ScrapeResult(url, "", None, None, Some("HTTP error"))
    ELSE IF resp.kind = "request_error"
    THEN ScrapeResult(url, "", None, None, Some("Request failed"))
    ELSE IF ~resp.success
    THEN ScrapeResult(url, "", None, None, Some("Unknown error"))
    ELSE ScrapeResult(url, resp.markdown, Some(Get(resp.sourceURL, url)),
                      resp.statusCode, None)

RECURSIVE Pow2(_)
Pow2(n) == IF n = 0 THEN 1 ELSE 2 * Pow2(n - 1)

Min(a, b) == IF a <= b THEN a ELSE b

\* the retry test with an off-by-one: a backoff also after the last attempt
HasRetriesLeftOffByOne(n, budget) == n <= budget

\* if attempt < max_retries
HasRetriesLeft(n, budget) == n < budget

\* if is_permanent_error(result.status_code)
IsPermanentResult(r) == is_permanent_error(r.status_code)

\* the backoff without the cap
BackoffUncapped(n, cap) == Pow2(n)

\* backoff = min(1.0 * (2 ** attempt), max_backoff)
Backoff(n, cap) == Min(Pow2(n), cap)

\* on_retry called with the attempt index in the place of retry_count
OnRetryZeroBased(idx, url, n, code) ==
    [idx |-> idx, url |-> url, n |-> n - 1, code |-> code]

\* on_retry(url, retry_count, result.status_code), as the callback receives
\* it (idx records which pass of the url loop made the call)
OnRetry(idx, url, n, code) == [idx |-> idx, url |-> url, n |-> n, code |-> code]

\* one time.sleep(secs) call; calls is the number of on_retry calls made
\* before it starts
Sleep(kind, idx, secs, calls) ==
    [kind |-> kind, idx |-> idx, secs |-> secs, calls |-> calls]

InitSeq ==
    /\ spc = "start"
    /\ urls \in UrlLists
    /\ max_retries \in -1..MaxRetriesArg
    /\ max_backoff \in BackoffCaps
    /\ delay \in Delays
    /\ on_retry \in BOOLEAN
    /\ i = 1
    /\ attempt = 0
    /\ result = None
    /\ permanent = FALSE
    /\ retry_count = 0
    /\ sout = <<>>
    /\ fetches = <<>>
    /\ sleeps = <<>>
    /\ retry_calls = <<>>

IdleSeq ==
    /\ spc = "idle"
    /\ urls = <<>>
    /\ max_retries = 0
    /\ max_backoff = 1
    /\ delay = 0
    /\ on_retry = FALSE
    /\ i = 1
    /\ attempt = 0
    /\ result = None
    /\ permanent = FALSE
    /\ retry_count = 0
    /\ sout = <<>>
    /\ fetches = <<>>
    /\ sleeps = <<>>
    /\ retry_calls = <<>>

\* the head of "for i, url in enumerate(urls)" for the k-th url: result = None;
\* permanent = False; retry_count = 0; then the attempt loop
\* "for attempt in range(max_retries + 1)", which has no pass when
\* max_retries + 1 <= 0
Enter(k) ==
    /\ i' = k
    /\ IF k > Len(urls)
       THEN /\ spc' = "done"
            /\ UNCHANGED <<result, permanent, retry_count, attempt>>
       ELSE /\ result' = None
            /\ permanent' = FALSE
            /\ retry_count' = 0
            /\ attempt' = 0
            /\ spc' = IF max_retries + 1 > 0 THEN "fetch" ELSE "after"

\* the consumer's first next() on the generator
SeqStart ==
    /\ spc = "start"
    /\ Enter(1)
    /\ UNCHANGED <<urls, max_retries, max_backoff, delay, on_retry, sout,
                   fetches, sleeps, retry_calls>>
    /\ UNCHANGED notSeq

\* the yield with the number of attempts in the place of retry_count
YieldAttempts(r, perm, rc) ==
    /\ sout' = Append(sout, [idx |-> i, result |-> r, permanent |-> perm,
                             retry_count |-> rc + 1])
    /\ spc' = "after"

\* if result is not None: yield result, permanent, retry_count
\* (idx records which pass of the url loop yielded the tuple)
Yield(r, perm, rc) ==
    /\ sout' = Append(sout, [idx |-> i, result |-> r, permanent |-> perm,
                             retry_count |-> rc])
    /\ spc' = "after"

\* one pass of the attempt loop up to its break, its backoff sleep or its end
SeqFetch ==
    /\ spc = "fetch"
    /\ \E resp \in ApiResponses :
         LET r == scrape_url(urls[i], resp) IN
         /\ fetches' = Append(fetches, [idx |-> i, url |-> urls[i],
                                        code |-> r.status_code,
                                        ok |-> success(r)])
         /\ IF Raises(resp)
              THEN /\ spc' = "raised"
                   /\ UNCHANGED <<result, permanent, retry_count, retry_calls,
                                  sleeps, sout>>
              ELSE /\ result' = Some(r)
                   /\ IF success(r)
                        THEN /\ Yield(r, permanent, retry_count)
                             /\ UNCHANGED <<permanent, retry_count, retry_calls,
                                            sleeps>>
                      ELSE IF IsPermanentResult(r)
                        THEN /\ permanent' = TRUE
                             /\ Yield(r, TRUE, retry_count)
                             /\ UNCHANGED <<retry_count, retry_calls, sleeps>>
                      ELSE IF HasRetriesLeft(attempt, max_retries)
                        THEN /\ retry_count' = attempt + 1
                             /\ retry_calls' =
                                  IF on_retry
                                  THEN Append(retry_calls,
                                              OnRetry(i, urls[i], attempt + 1,
                                                      r.status_code))
                                  ELSE retry_calls
                             /\ sleeps' = Append(sleeps,
                                  Sleep("backoff", i,
                                        Backoff(attempt, max_backoff),
                                        Len(retry_calls')))
                             /\ spc' = "backoff"
                             /\ UNCHANGED <<permanent, sout>>
                        ELSE /\ Yield(r, permanent, retry_count)
                             /\ UNCHANGED <<permanent, retry_count, retry_calls,
                                            sleeps>>
    /\ UNCHANGED <<urls, max_retries, max_backoff, delay, on_retry, i, attempt>>
    /\ UNCHANGED notSeq

\* a retryable failure left behind: after the backoff the loop moves on to the
\* next url without a tuple for this one
SeqBackoffNextUrl ==
    /\ spc = "backoff"
    /\ Enter(i + 1)
    /\ UNCHANGED <<urls, max_retries, max_backoff, delay, on_retry, sout,
                   fetches, sleeps, retry_calls>>
    /\ UNCHANGED notSeq

\* time.sleep(backoff) returns: the next pass of the attempt loop
\* (for attempt in range(max_retries + 1)), or the end of the loop and the yield
SeqBackoff ==
    /\ spc = "backoff"
    /\ IF attempt + 1 < max_retries + 1
       THEN /\ attempt' = attempt + 1
            /\ spc' = "fetch"
            /\ sout' = sout
       ELSE /\ attempt' = attempt
            /\ Yield(Get(result, 0), permanent, retry_count)
    /\ UNCHANGED <<urls, max_retries, max_backoff, delay, on_retry, i, result,
                   permanent, retry_count, fetches, sleeps, retry_calls>>
    /\ UNCHANGED notSeq

\* the politeness test without "i < len(urls) - 1"
SeqAfterSleepsAfterLast ==
    /\ spc = "after"
    /\ IF delay > 0
       THEN /\ \E secs \in 0..delay :
                 sleeps' = Append(sleeps, Sleep("politeness", i, secs,
                                                Len(retry_calls)))
            /\ spc' = "polite"
            /\ UNCHANGED <<i, result, permanent, retry_count, attempt>>
       ELSE /\ sleeps' = sleeps
            /\ Enter(i + 1)
    /\ UNCHANGED <<urls, max_retries, max_backoff, delay, on_retry, sout,
                   fetches, retry_calls>>
    /\ UNCHANGED notSeq

\* if i < len(urls) - 1 and delay > 0: time.sleep(random.uniform(0, delay))
SeqAfter ==
    /\ spc = "after"
    /\ IF i < Len(urls) /\ delay > 0
       THEN /\ \E secs \in 0..delay :
                 sleeps' = Append(sleeps, Sleep("politeness", i, secs,
                                                Len(retry_calls)))
            /\ spc' = "polite"
            /\ UNCHANGED <<i, result, permanent, retry_count, attempt>>
       ELSE /\ sleeps' = sleeps
            /\ Enter(i + 1)
    /\ UNCHANGED <<urls, max_retries, max_backoff, delay, on_retry, sout,
                   fetches, retry_calls>>
    /\ UNCHANGED notSeq

\* the politeness sleep returns: the next url
SeqPolite ==
    /\ spc = "polite"
    /\ Enter(i + 1)
    /\ UNCHANGED <<urls, max_retries, max_backoff, delay, on_retry, sout,
                   fetches, sleeps, retry_calls>>
    /\ UNCHANGED notSeq

NextSeq ==
    \/ SeqStart
    \/ SeqFetch
    \/ SeqBackoff
    \/ SeqAfter
    \/ SeqPolite

(***************************************************************************)
(* src/firemd/manifest.py: ManifestEntry, load_manifest,                   *)
(* save_manifest_entry, save_error_entry                                   *)
(*                                                                         *)
(* A JSON object is a function from its keys to their values. A line of a  *)
(* .jsonl file is a record: kind "json" with the object it holds, kind     *)
(* "torn" for text json.loads rejects, kind "blank" for an empty line.     *)
(***************************************************************************)
ManifestEntry(url, file, status, ts, title, http_status, error) ==
    [url |-> url, file |-> file, status |-> status, ts |-> ts, title |-> title,
     http_status |-> http_status, error |-> error]

\* Python truthiness of an optional string and of an optional integer
TruthyStr(opt) == opt # None /\ opt # Some("")
TruthyInt(opt) == opt # None /\ opt # Some(0)

\* one optional key of a dict
Key(present, k, opt) == IF present THEN k :> Get(opt, "") ELSE <<>>

\* ManifestEntry.to_dict
to_dict(e) ==
    [k \in {"url", "file", "status", "ts"} |->
        CASE k = "url" -> e.url [] k = "file" -> e.file
          [] k = "status" -> e.status [] OTHER -> e.ts]
    @@ Key(TruthyStr(e.title), "title", e.title)
    @@ Key(TruthyInt(e.http_status), "http_status", e.http_status)
    @@ Key(TruthyStr(e.error), "error", e.error)

\* data.get(k)
DictGet(data, k) == IF k \in DOMAIN data THEN Some(data[k]) ELSE None

\* ManifestEntry.from_dict raises KeyError: data["url"], data["status"]
FromDictRaises(data) == ~({"url", "status"} \subseteq DOMAIN data)

\* ManifestEntry.from_dict with the optional fields defaulting to ""
from_dict_empty_defaults(data) ==
    ManifestEntry(data["url"], Get(DictGet(data, "file"), ""), data["status"],
                  Get(DictGet(data, "ts"), ""),
                  Some(Get(DictGet(data, "title"), "")),
                  DictGet(data, "http_status"),
                  Some(Get(DictGet(data, "error"), "")))

\* ManifestEntry.from_dict
from_dict(data) ==
    ManifestEntry(data["url"], Get(DictGet(data, "file"), ""), data["status"],
                  Get(DictGet(data, "ts"), ""), DictGet(data, "title"),
                  DictGet(data, "http_status"), DictGet(data, "error"))

\* json.dumps(d) + "\n"
JsonLine(d) == [kind |-> "json", obj |-> d]
TornLine == [kind |-> "torn", obj |-> <<>>]
BlankLine == [kind |-> "blank", obj |-> <<>>]
\* a JSON object line without the "status" key
ForeignLine == JsonLine("url" :> "A")

\* json.loads(line): the object, or None for json.JSONDecodeError
json_loads(line) == IF line.kind = "json" THEN Some(line.obj) ELSE None

\* entries[entry.url] = entry keeping an entry the url already has
PutFirst(entries, entry) ==
    IF entry.url \in DOMAIN entries THEN entries ELSE (entry.url :> entry) @@ entries

\* entries[entry.url] = entry
Put(entries, entry) == (entry.url :> entry) @@ entries

\* load_manifest's loop giving up at the first line it cannot use
RECURSIVE LoadLinesStopsAtInvalid(_, _)
LoadLinesStopsAtInvalid(lines, entries) ==
    IF lines = <<>> THEN entries
    ELSE LET line == Head(lines)
             data == json_loads(line)
         IN  IF line.kind = "blank" \/ data = None
             THEN entries
             ELSE LET d == CHOOSE x \in data : TRUE
                  IN  IF FromDictRaises(d)
                      THEN entries
                      ELSE LoadLinesStopsAtInvalid(Tail(lines),
                                                   Put(entries, from_dict(d)))

\* load_manifest's loop over the lines of the file, entries being the dict so far
RECURSIVE LoadLines(_, _)
LoadLines(lines, entries) ==
    IF lines = <<>> THEN entries
    ELSE LET line == Head(lines)
             data == json_loads(line)
         IN  IF line.kind = "blank" \/ data = None
             THEN LoadLines(Tail(lines), entries)
             ELSE LET d == CHOOSE x \in data : TRUE
                  IN  IF FromDictRaises(d)
                      THEN LoadLines(Tail(lines), entries)
                      ELSE LoadLines(Tail(lines), Put(entries, from_dict(d)))

\* load_manifest (a missing file is the empty sequence of lines)
load_manifest(lines) == LoadLines(lines, <<>>)

\* save_manifest_entry opening the file with mode "w"
save_manifest_entry_truncates(lines, entry) == <<JsonLine(to_dict(entry))>>

\* save_manifest_entry: the file after the append
save_manifest_entry(lines, entry) == Append(lines, JsonLine(to_dict(entry)))

\* save_error_entry with its status test inverted
save_error_entry_only_ok(lines, entry) ==
    IF entry.status = "error" THEN lines
    ELSE Append(lines, JsonLine(to_dict(entry)))

\* save_error_entry: the file after the call
save_error_entry(lines, entry) ==
    IF entry.status # "error" THEN lines
    ELSE Append(lines, JsonLine(to_dict(entry)))

\* The entries written in the manifest runs: per url, successes with and
\* without a title, failures with and without a status, an entry whose
\* optional fields are all falsy and one whose optional fields are all absent.
EntryShapes ==
    { <<"a.md", "ok", None, Some(200), None>>,
      <<"a.md", "ok", Some("T"), Some(200), None>>,
      <<"", "error", None, Some(404), Some("HTTP 404")>>,
      <<"", "error", None, None, Some("Request failed")>>,
      <<"a.md", "ok", Some(""), Some(0), Some("")>>,
      <<"a.md", "ok", None, None, None>> }

\* lines of a manifest that no save_manifest_entry call produced
ForeignLines == {TornLine, BlankLine, ForeignLine}

InitManifest ==
    /\ m_file = <<>>
    /\ m_written = <<>>
    /\ m_loaded = None

IdleManifest ==
    /\ m_file = <<>>
    /\ m_written = <<>>
    /\ m_loaded = Some(<<>>)

\* save_manifest_entry(manifest_path, ManifestEntry(...)); ts is the ordinal
\* of the instant the entry is created
SaveManifestEntry ==
    /\ m_loaded = None
    /\ Len(m_file) < MaxLines
    /\ \E u \in Urls, sh \in EntryShapes :
          LET entry == ManifestEntry(u, sh[1], sh[2], Len(m_file) + 1, sh[3],
                                     sh[4], sh[5])
          IN  /\ m_file' = save_manifest_entry(m_file, entry)
              /\ m_written' = Append(m_written, Some(entry))
    /\ UNCHANGED m_loaded
    /\ UNCHANGED notManifest

\* the file gains a line that is not an entry (an interrupted write, an edit)
ForeignAppend ==
    /\ m_loaded = None
    /\ Len(m_file) < MaxLines
    /\ \E line \in ForeignLines : m_file' = Append(m_file, line)
    /\ m_written' = Append(m_written, None)
    /\ UNCHANGED m_loaded
    /\ UNCHANGED notManifest

LoadManifest ==
    /\ m_loaded = None
    /\ m_loaded' = Some(load_manifest(m_file))
    /\ UNCHANGED <<m_file, m_written>>
    /\ UNCHANGED notManifest

NextManifest ==
    \/ SaveManifestEntry
    \/ ForeignAppend
    \/ LoadManifest

(***************************************************************************)
(* src/firemd/cli.py: do_scrape over a url file, sequential mode           *)
(*                                                                         *)
(* One behaviour is a series of do_scrape processes over the same url file *)
(* and output directory; only manifest.jsonl and errors.jsonl survive from *)
(* one process to the next. Titles are left out of the ScrapeResult, so    *)
(* the entries written here carry no title; a timestamp is the ordinal of  *)
(* the process that wrote the entry (0 for what was there before).         *)
(***************************************************************************)
\* what the backend answers to the scrapes of a do_scrape run
ScrapeResponses ==
    { Resp("request_error", 0, FALSE, "", None, None),
      Resp("body", 0, TRUE, "md", Some(200), Some("Z")),
      Resp("body", 0, TRUE, "md", Some(404), None) }

\* The body of scrape_urls_sequential's url loop for one url, fed the
\* responses resps[a + 1] of the attempts a = 0, 1, ...: the result, permanent
\* and retry_count it ends with (result None when no attempt ran), and the
\* number of scrape_url calls made.
RECURSIVE AttemptLoop(_, _, _, _, _, _)
AttemptLoop(url, resps, a, budget, rc, last) ==
    IF a > budget
    THEN [result |-> last, permanent |-> FALSE, retry_count |-> rc, calls |-> a]
    ELSE LET r == scrape_url(url, resps[a + 1])
         IN  IF success(r)
             THEN [result |-> Some(r), permanent |-> FALSE, retry_count |-> rc,
                   calls |-> a + 1]
             ELSE IF IsPermanentResult(r)
             THEN [result |-> Some(r), permanent |-> TRUE, retry_count |-> rc,
                   calls |-> a + 1]
             ELSE AttemptLoop(url, resps, a + 1, budget,
                              IF HasRetriesLeft(a, budget) THEN a + 1 ELSE rc,
                              Some(r))

\* the response sequences one url can be answered with under a retry budget
ResponseRuns(budget) == [1..(budget + 1) -> ScrapeResponses]

MaxOf(S) == CHOOSE x \in S : \A y \in S : y <= x

\* f"{index:04d}" for the indexes of a run
IndexText(index) ==
    CASE index = 0 -> "0000" [] index = 1 -> "0001" [] index = 2 -> "0002"
      [] OTHER -> "9999"

\* make_filename(url, index): {index}_{host and path of the url}.md
make_filename(url, index) == IndexText(index) \o "_" \o url \o ".md"

\* url_to_index = {url: i + 1 for i, url in enumerate(urls)}, looked up for url
UrlIndex(list, url) == MaxOf({k \in 1..Len(list) : list[k] = url} \cup {0})

\* the filter of do_scrape judging by the entry's status alone
ProcessedOkStatusOnly(existing, u) ==
    u \in DOMAIN existing /\ existing[u].status = "ok"

\* not (u not in existing_manifest or existing_manifest[u].status != "ok"
\*      or not is_success(existing_manifest[u].http_status))
ProcessedOk(existing, u) ==
    /\ u \in DOMAIN existing
    /\ existing[u].status = "ok"
    /\ is_success(existing[u].http_status)

\* urls_to_process
RECURSIVE UrlsToProcess(_, _)
UrlsToProcess(list, existing) ==
    IF list = <<>> THEN <<>>
    ELSE IF ProcessedOk(existing, Head(list))
    THEN UrlsToProcess(Tail(list), existing)
    ELSE <<Head(list)>> \o UrlsToProcess(Tail(list), existing)

\* the entry of a successful result without its http status
OkEntryNoStatus(r, index, ts) ==
    ManifestEntry(r.url, make_filename(r.url, index), "ok", ts, None, None, None)

\* the entry of a successful result with its file left empty
OkEntryNoFile(r, index, ts) ==
    ManifestEntry(r.url, "", "ok", ts, None, r.status_code, None)

\* the entry of a successful result
OkEntry(r, index, ts) ==
    ManifestEntry(r.url, make_filename(r.url, index), "ok", ts, None,
                  r.status_code, None)

\* error_msg = result.error or f"HTTP {result.status_code}"
ErrorMsg(r) == IF TruthyStr(r.error) THEN r.error ELSE Some("HTTP status")

\* the entry of a failed result
ErrorEntry(r, ts) ==
    ManifestEntry(r.url, "", "error", ts, None, r.status_code, ErrorMsg(r))

\* the first pass collecting every failed url for the retry pass
CollectsAnyFailure(perm) == TRUE

\* the first pass: "if is_perm_error ... else retryable_failures.append"
Collects(perm) == ~perm

\* Entries found in manifest.jsonl by the first process, all about url A: a
\* success, a failure without a status, and an "ok" entry without a status.
PriorEntries ==
    { ManifestEntry("A", make_filename("A", 1), "ok", 0, None, Some(200), None),
      ManifestEntry("A", "", "error", 0, None, None, Some("Request failed")),
      ManifestEntry("A", make_filename("A", 1), "ok", 0, None, None, None) }

RECURSIVE SaveAll(_, _)
SaveAll(lines, entries) ==
    IF entries = <<>> THEN lines
    ELSE SaveAll(save_manifest_entry(lines, Head(entries)), Tail(entries))

PriorManifests ==
    {SaveAll(<<>>, es) : es \in UNION {[1..n -> PriorEntries] : n \in 0..MaxPrior}}

\* one submission of a url to scrape_urls_sequential and what came of it
LogRecord(pass, url, t) ==
    [pass |-> pass, url |-> url, emitted |-> t.result # None,
     ok |-> \E r \in t.result : success(r), perm |-> t.permanent]

\* the finished process left every url of its file successful: each one
\* skipped as already done or submitted and successful in the end
AllSuccessful ==
    /\ dpc = "exit"
    /\ \A k \in 1..Len(d_log) :
          /\ d_log[k].emitted
          /\ d_log[k].pass = "first" => (d_log[k].ok \/ ~d_log[k].perm)
          /\ d_log[k].pass = "retry" => d_log[k].ok

InitScrape ==
    /\ dpc = "load"
    /\ d_input \in UrlLists \ {<<>>}
    /\ overwrite \in BOOLEAN
    /\ d_max_retries \in -1..MaxScrapeRetries
    /\ manifest \in PriorManifests
    /\ errors = <<>>
    /\ existing_manifest = <<>>
    /\ d_urls = d_input
    /\ d_k = 0
    /\ retryable_failures = <<>>
    /\ d_run = 1
    /\ d_log = <<>>
    /\ d_fetched = FALSE
    /\ d_mark = [manifest |-> Len(manifest), errors |-> 0]
    /\ d_cooldowns = 0
    /\ prev_all_ok = FALSE

IdleScrape ==
    /\ dpc = "idle"
    /\ d_input = <<>>
    /\ overwrite = FALSE
    /\ d_max_retries = 0
    /\ manifest = <<>>
    /\ errors = <<>>
    /\ existing_manifest = <<>>
    /\ d_urls = <<>>
    /\ d_k = 0
    /\ retryable_failures = <<>>
    /\ d_run = 1
    /\ d_log = <<>>
    /\ d_fetched = FALSE
    /\ d_mark = [manifest |-> 0, errors |-> 0]
    /\ d_cooldowns = 0
    /\ prev_all_ok = FALSE

\* do_scrape up to the first pass: load the manifest unless overwriting,
\* filter the urls, exit when none is left
ScrapeLoad ==
    /\ dpc = "load"
    /\ LET existing == IF ~overwrite THEN load_manifest(manifest) ELSE <<>>
           todo == IF ~overwrite THEN UrlsToProcess(d_urls, existing) ELSE d_urls
       IN  /\ existing_manifest' = existing
           /\ d_urls' = todo
           /\ dpc' = IF todo = <<>> THEN "exit" ELSE "first"
    /\ UNCHANGED <<d_input, overwrite, d_max_retries, manifest, errors, d_k,
                   retryable_failures, d_run, d_log, d_fetched, d_mark,
                   d_cooldowns, prev_all_ok>>
    /\ UNCHANGED notScrape

\* One turn of the first pass: scrape_urls_sequential works on the next url
\* and, if it yields a tuple, the loop body of do_scrape handles it.
ScrapeFirst ==
    /\ dpc = "first"
    /\ d_k < Len(d_urls)
    /\ \E resps \in ResponseRuns(d_max_retries) :
          LET url == d_urls[d_k + 1]
              t == AttemptLoop(url, resps, 0, d_max_retries, 0, None)
              url_index == UrlIndex(d_urls, url)
          IN  /\ d_log' = Append(d_log, LogRecord("first", url, t))
              /\ d_fetched' = (d_fetched \/ t.calls > 0)
              /\ IF t.result = None
                 THEN UNCHANGED <<manifest, errors, retryable_failures>>
                 ELSE LET r == CHOOSE x \in t.result : TRUE
                      IN  IF success(r)
                          THEN /\ manifest' = save_manifest_entry(manifest,
                                                 OkEntry(r, url_index, d_run))
                               /\ UNCHANGED <<errors, retryable_failures>>
                          ELSE /\ manifest' = save_manifest_entry(manifest,
                                                 ErrorEntry(r, d_run))
                               /\ errors' = IF t.permanent
                                            THEN save_error_entry(errors,
                                                     ErrorEntry(r, d_run))
                                            ELSE errors
                               /\ retryable_failures' =
                                      IF Collects(t.permanent)
                                      THEN Append(retryable_failures,
                                                  <<r.url, url_index>>)
                                      ELSE retryable_failures
    /\ d_k' = d_k + 1
    /\ UNCHANGED <<dpc, d_input, overwrite, d_max_retries, existing_manifest,
                   d_urls, d_run, d_mark, d_cooldowns, prev_all_ok>>
    /\ UNCHANGED notScrape

\* the first pass is over: "if retryable_failures:", else the summary and exit
ScrapeFirstDone ==
    /\ dpc = "first"
    /\ d_k = Len(d_urls)
    /\ dpc' = IF retryable_failures # <<>> THEN "cooldown" ELSE "exit"
    /\ UNCHANGED <<d_input, overwrite, d_max_retries, manifest, errors,
                   existing_manifest, d_urls, d_k, retryable_failures, d_run,
                   d_log, d_fetched, d_mark, d_cooldowns, prev_all_ok>>
    /\ UNCHANGED notScrape

\* time.sleep(30), then the retry pass starts on retry_urls
ScrapeCooldown ==
    /\ dpc = "cooldown"
    /\ d_cooldowns' = d_cooldowns + 1
    /\ d_k' = 0
    /\ dpc' = "retry"
    /\ UNCHANGED <<d_input, overwrite, d_max_retries, manifest, errors,
                   existing_manifest, d_urls, retryable_failures, d_run, d_log,
                   d_fetched, d_mark, prev_all_ok>>
    /\ UNCHANGED notScrape

\* the retry pass leaving manifest.jsonl alone after a success
ScrapeRetryNoManifest ==
    /\ dpc = "retry"
    /\ d_k < Len(retryable_failures)
    /\ \E resps \in ResponseRuns(d_max_retries) :
          LET url == retryable_failures[d_k + 1][1]
              t == AttemptLoop(url, resps, 0, d_max_retries, 0, None)
              hits == {k \in 1..Len(retryable_failures) :
                          retryable_failures[k][1] = url}
              url_index == retryable_failures[MaxOf(hits)][2]
          IN  /\ d_log' = Append(d_log, LogRecord("retry", url, t))
              /\ d_fetched' = (d_fetched \/ t.calls > 0)
              /\ IF t.result = None
                 THEN UNCHANGED <<manifest, errors>>
                 ELSE LET r == CHOOSE x \in t.result : TRUE
                      IN  IF success(r)
                          THEN UNCHANGED <<manifest, errors>>
                          ELSE /\ errors' = save_error_entry(errors,
                                                ErrorEntry(r, d_run))
                               /\ UNCHANGED manifest
    /\ d_k' = d_k + 1
    /\ UNCHANGED <<dpc, d_input, overwrite, d_max_retries, existing_manifest,
                   d_urls, retryable_failures, d_run, d_mark, d_cooldowns,
                   prev_all_ok>>
    /\ UNCHANGED notScrape

\* One turn of the retry pass over retry_urls = [url for url, _ in
\* retryable_failures], with retry_index_map the index of each.
ScrapeRetry ==
    /\ dpc = "retry"
    /\ d_k < Len(retryable_failures)
    /\ \E resps \in ResponseRuns(d_max_retries) :
          LET url == retryable_failures[d_k + 1][1]
              t == AttemptLoop(url, resps, 0, d_max_retries, 0, None)
              hits == {k \in 1..Len(retryable_failures) :
                          retryable_failures[k][1] = url}
              url_index == retryable_failures[MaxOf(hits)][2]
          IN  /\ d_log' = Append(d_log, LogRecord("retry", url, t))
              /\ d_fetched' = (d_fetched \/ t.calls > 0)
              /\ IF t.result = None
                 THEN UNCHANGED <<manifest, errors>>
                 ELSE LET r == CHOOSE x \in t.result : TRUE
                      IN  IF success(r)
                          THEN /\ manifest' = save_manifest_entry(manifest,
                                                 OkEntry(r, url_index, d_run))
                               /\ UNCHANGED errors
                          ELSE /\ errors' = save_error_entry(errors,
                                                ErrorEntry(r, d_run))
                               /\ UNCHANGED manifest
    /\ d_k' = d_k + 1
    /\ UNCHANGED <<dpc, d_input, overwrite, d_max_retries, existing_manifest,
                   d_urls, retryable_failures, d_run, d_mark, d_cooldowns,
                   prev_all_ok>>
    /\ UNCHANGED notScrape

\* the retry pass is over: the summary and exit
ScrapeRetryDone ==
    /\ dpc = "retry"
    /\ d_k = Len(retryable_failures)
    /\ dpc' = "exit"
    /\ UNCHANGED <<d_input, overwrite, d_max_retries, manifest, errors,
                   existing_manifest, d_urls, d_k, retryable_failures, d_run,
                   d_log, d_fetched, d_mark, d_cooldowns, prev_all_ok>>
    /\ UNCHANGED notScrape

\* a new do_scrape process on the same url file and output directory,
\* without the overwrite flag
Rerun ==
    /\ dpc = "exit"
    /\ d_run < MaxRuns
    /\ dpc' = "load"
    /\ overwrite' = FALSE
    /\ existing_manifest' = <<>>
    /\ d_urls' = d_input
    /\ d_k' = 0
    /\ retryable_failures' = <<>>
    /\ d_run' = d_run + 1
    /\ d_log' = <<>>
    /\ d_fetched' = FALSE
    /\ d_mark' = [manifest |-> Len(manifest), errors |-> Len(errors)]
    /\ d_cooldowns' = 0
    /\ prev_all_ok' = AllSuccessful
    /\ UNCHANGED <<d_input, d_max_retries, manifest, errors>>
    /\ UNCHANGED notScrape

NextScrape ==
    \/ ScrapeLoad
    \/ ScrapeFirst
    \/ ScrapeFirstDone
    \/ ScrapeCooldown
    \/ ScrapeRetry
    \/ ScrapeRetryDone
    \/ Rerun

(***************************************************************************)
(* src/firemd/cli.py: the manifest entries written by do_scrape,           *)
(* _do_batch_scrape and do_crawl for one result each                       *)
(***************************************************************************)
\* results handed to the writers: a success, a 2xx page without content, a
\* page with a 404 status, a failure without a status, and a success whose
\* url is empty (a crawl page delivered without sourceURL and url)
WriterResults ==
    { ScrapeResult("A", "md", Some("A"), Some(200), None),
      ScrapeResult("A", "", None, Some(200), None),
      ScrapeResult("B", "md", None, Some(404), None),
      ScrapeResult("B", "", None, None, Some("Request failed")) }

CrawlResults == WriterResults \cup {ScrapeResult("", "md", None, Some(200), None)}

\* make_filename(url, index=None): no index part
make_filename_unindexed(url) == "unknown_" \o url \o ".md"

\* do_crawl: the entry of a successful result (write_markdown with index=None)
CrawlOkEntry(r, ts) ==
    ManifestEntry(r.url, make_filename_unindexed(r.url), "ok", ts, None,
                  r.status_code, None)

\* _do_batch_scrape: the entry of a failed result (error=result.error)
BatchErrorEntry(r, ts) ==
    ManifestEntry(r.url, "", "error", ts, None, r.status_code, r.error)

\* save_manifest_entry(manifest_path, entry) by one of the writers
WriteEntry(entry) ==
    /\ m_file' = save_manifest_entry(m_file, entry)
    /\ m_written' = Append(m_written, Some(entry))
    /\ UNCHANGED m_loaded
    /\ UNCHANGED notManifest

\* do_scrape, first pass: the body of the loop over scrape_urls_sequential
WriteFirstPass ==
    /\ m_loaded = None
    /\ Len(m_file) < MaxLines
    /\ \E r \in WriterResults, url_index \in 1..MaxUrls :
         WriteEntry(IF success(r) THEN OkEntry(r, url_index, Len(m_file) + 1)
                    ELSE ErrorEntry(r, Len(m_file) + 1))

\* do_scrape, retry pass: only a success is written to the manifest
WriteRetryPass ==
    /\ m_loaded = None
    /\ Len(m_file) < MaxLines
    /\ \E r \in WriterResults, url_index \in 0..MaxUrls :
         /\ success(r)
         /\ WriteEntry(OkEntry(r, url_index, Len(m_file) + 1))

\* _do_batch_scrape: the body of the loop over the results of poll_batch
WriteBatch ==
    /\ m_loaded = None
    /\ Len(m_file) < MaxLines
    /\ \E r \in WriterResults, url_index \in 1..MaxUrls :
         WriteEntry(IF success(r) THEN OkEntry(r, url_index, Len(m_file) + 1)
                    ELSE BatchErrorEntry(r, Len(m_file) + 1))

\* do_crawl: the body of the loop over the results of stream_crawl, for a
\* result that the resume test does not skip
WriteCrawl ==
    /\ m_loaded = None
    /\ Len(m_file) < MaxLines
    /\ \E r \in CrawlResults, existing \in {<<>>, load_manifest(m_file)} :
         /\ ~ProcessedOk(existing, r.url)
         /\ WriteEntry(IF success(r) THEN CrawlOkEntry(r, Len(m_file) + 1)
                       ELSE ErrorEntry(r, Len(m_file) + 1))

NextWriters ==
    \/ WriteFirstPass
    \/ WriteRetryPass
    \/ WriteBatch
    \/ WriteCrawl

(***************************************************************************)
(* src/firemd/cli.py: the try block of do_crawl around start_crawl and     *)
(* stream_crawl, and src/firemd/firecrawl.py: cancel_crawl over            *)
(* _make_request("DELETE") and with_retry                                  *)
(***************************************************************************)
\* job ids start_crawl can return ("" when the response names none)
CancelJobIds == {"job-1", ""}

\* RETRYABLE_STATUS_CODES
RETRYABLE_STATUS_CODES == {408, 429, 500, 502, 503, 504}

\* What one DELETE request ends in: a response (raise_for_status passes), an
\* HTTPStatusError with its status, an httpx.RequestError, or an exception
\* that is neither (kind "Other").
Outcome(kind, code) == [kind |-> kind, code |-> code]
DeleteOutcomes ==
    { Outcome("ok", 200), Outcome("HTTPStatusError", 404),
      Outcome("HTTPStatusError", 503), Outcome("RequestError", 0),
      Outcome("Other", 0) }

\* with_retry remembering every HTTPStatusError, whatever its status
RetriedAnyStatus(o) == o.kind \in {"HTTPStatusError", "RequestError"}

\* with_retry: the exception of this outcome is remembered and retried
Retried(o) ==
    \/ o.kind = "HTTPStatusError" /\ o.code \in RETRYABLE_STATUS_CODES
    \/ o.kind = "RequestError"

\* cancel_crawl catching only the errors of the HTTP layer
CancelCaughtHttpOnly == {"HTTPStatusError", "RequestError"}

\* cancel_crawl: except Exception
CancelCaught == {"HTTPStatusError", "RequestError", "Other"}

\* delay = min(base_delay * (2**attempt), max_delay)
RetryDelay(n) == Min(Pow2(n), MaxDelay)

InitCancel ==
    /\ kpc = "start"
    /\ crawl_job = None
    /\ k_tuples = 0
    /\ k_interrupted = FALSE
    /\ k_attempt = 0
    /\ k_last_exception = None
    /\ k_deletes = <<>>
    /\ k_sleeps = <<>>
    /\ k_swallowed = None
    /\ k_escaped = None

IdleCancel ==
    /\ kpc = "idle"
    /\ crawl_job = None
    /\ k_tuples = 0
    /\ k_interrupted = FALSE
    /\ k_attempt = 0
    /\ k_last_exception = None
    /\ k_deletes = <<>>
    /\ k_sleeps = <<>>
    /\ k_swallowed = None
    /\ k_escaped = None

\* crawl_job = client.start_crawl(...)
CrawlStarts ==
    /\ kpc = "start"
    /\ \E id \in CancelJobIds : crawl_job' = Some(id)
    /\ kpc' = "stream"
    /\ UNCHANGED <<k_tuples, k_interrupted, k_attempt, k_last_exception,
                   k_deletes, k_sleeps, k_swallowed, k_escaped>>
    /\ UNCHANGED notCancel

\* start_crawl raises FirecrawlError: "Crawl failed", typer.Exit(2)
CrawlStartFails ==
    /\ kpc = "start"
    /\ kpc' = "exit2"
    /\ UNCHANGED <<crawl_job, k_tuples, k_interrupted, k_attempt,
                   k_last_exception, k_deletes, k_sleeps, k_swallowed, k_escaped>>
    /\ UNCHANGED notCancel

\* KeyboardInterrupt before start_crawl has returned: crawl_job is None, so
\* the handler cancels nothing
InterruptBeforeStart ==
    /\ kpc = "start"
    /\ k_interrupted' = TRUE
    /\ kpc' = "after"
    /\ UNCHANGED <<crawl_job, k_tuples, k_attempt, k_last_exception, k_deletes,
                   k_sleeps, k_swallowed, k_escaped>>
    /\ UNCHANGED notCancel

\* one tuple of stream_crawl is handled by the loop body
StreamTuple ==
    /\ kpc = "stream"
    /\ k_tuples < MaxTuples
    /\ k_tuples' = k_tuples + 1
    /\ UNCHANGED <<kpc, crawl_job, k_interrupted, k_attempt, k_last_exception,
                   k_deletes, k_sleeps, k_swallowed, k_escaped>>
    /\ UNCHANGED notCancel

\* stream_crawl is exhausted
StreamEnds ==
    /\ kpc = "stream"
    /\ kpc' = "after"
    /\ UNCHANGED <<crawl_job, k_tuples, k_interrupted, k_attempt,
                   k_last_exception, k_deletes, k_sleeps, k_swallowed, k_escaped>>
    /\ UNCHANGED notCancel

\* stream_crawl raises FirecrawlError
StreamFails ==
    /\ kpc = "stream"
    /\ kpc' = "exit2"
    /\ UNCHANGED <<crawl_job, k_tuples, k_interrupted, k_attempt,
                   k_last_exception, k_deletes, k_sleeps, k_swallowed, k_escaped>>
    /\ UNCHANGED notCancel

\* KeyboardInterrupt while the crawl runs: "if crawl_job:" holds, and
\* client.cancel_crawl(crawl_job.job_id) is entered
Interrupt ==
    /\ kpc = "stream"
    /\ k_interrupted' = TRUE
    /\ kpc' = IF crawl_job # None THEN "cancel" ELSE "after"
    /\ UNCHANGED <<crawl_job, k_tuples, k_attempt, k_last_exception, k_deletes,
                   k_sleeps, k_swallowed, k_escaped>>
    /\ UNCHANGED notCancel

\* An exception kind leaves _make_request inside cancel_crawl: the except
\* clause swallows it and cancel_crawl returns, or it escapes to do_crawl.
Leave(kind) ==
    IF kind \in CancelCaught
    THEN /\ k_swallowed' = Some(kind)
         /\ k_escaped' = None
         /\ kpc' = "after"
    ELSE /\ k_swallowed' = None
         /\ k_escaped' = Some(kind)
         /\ kpc' = "crashed"

\* One pass of with_retry's loop inside cancel_crawl: do_request() sends the
\* DELETE; a response returns, a non-retryable error is raised at once, a
\* retryable one is remembered; after the last pass the remembered exception
\* is raised.
DeleteAttempt ==
    /\ kpc = "cancel"
    /\ k_attempt <= ClientMaxRetries
    /\ k_deletes' = Append(k_deletes, CHOOSE id \in crawl_job : TRUE)
    /\ \E o \in DeleteOutcomes :
          IF o.kind = "ok"
          THEN /\ kpc' = "after"
               /\ UNCHANGED <<k_last_exception, k_swallowed, k_escaped>>
          ELSE IF ~Retried(o)
          THEN /\ Leave(o.kind)
               /\ UNCHANGED k_last_exception
          ELSE /\ k_last_exception' = Some(o.kind)
               /\ IF k_attempt < ClientMaxRetries
                  THEN /\ kpc' = "cancel_sleep"
                       /\ UNCHANGED <<k_swallowed, k_escaped>>
                  ELSE Leave(o.kind)
    /\ UNCHANGED <<crawl_job, k_tuples, k_interrupted, k_attempt, k_sleeps>>
    /\ UNCHANGED notCancel

\* time.sleep(delay) of with_retry, then the next pass of its loop
CancelBackoff ==
    /\ kpc = "cancel_sleep"
    /\ k_sleeps' = Append(k_sleeps, RetryDelay(k_attempt))
    /\ k_attempt' = k_attempt + 1
    /\ kpc' = "cancel"
    /\ UNCHANGED <<crawl_job, k_tuples, k_interrupted, k_last_exception,
                   k_deletes, k_swallowed, k_escaped>>
    /\ UNCHANGED notCancel

NextCancel ==
    \/ CrawlStarts
    \/ CrawlStartFails
    \/ InterruptBeforeStart
    \/ StreamTuple
    \/ StreamEnds
    \/ StreamFails
    \/ Interrupt
    \/ DeleteAttempt
    \/ CancelBackoff

(***************************************************************************)
(* src/firemd/firecrawl.py: with_retry                                     *)
(***************************************************************************)
\* the max_retries, base_delay and max_delay arguments
RetryBudgets == -1..MaxRetriesArg
BaseDelays == {1, 3}
MaxDelays == {4, 30}

\* what one call of func ends in
RequestOutcomes == DeleteOutcomes \cup {Outcome("HTTPStatusError", 429)}

\* RuntimeError("Retry logic error")
RetryLogicError == Outcome("RuntimeError", 0)

\* delay = min(base_delay * (2**attempt), max_delay)
RetryBackoff(base, n, cap) == Min(base * Pow2(n), cap)

InitRetry ==
    /\ wpc = "loop"
    /\ w_max_retries \in RetryBudgets
    /\ w_base_delay \in BaseDelays
    /\ w_max_delay \in MaxDelays
    /\ w_attempt = 0
    /\ w_last_exception = None
    /\ w_calls = <<>>
    /\ w_sleeps = <<>>
    /\ w_result = None

IdleRetry ==
    /\ wpc = "idle"
    /\ w_max_retries = 0
    /\ w_base_delay = 1
    /\ w_max_delay = 30
    /\ w_attempt = 0
    /\ w_last_exception = None
    /\ w_calls = <<>>
    /\ w_sleeps = <<>>
    /\ w_result = None

\* One pass of the loop up to the sleep: func() returns, raises an exception
\* that is raised on at once, or raises one that is remembered; after a
\* remembered one the loop sleeps unless this was the last pass.
RetryCall ==
    /\ wpc = "loop"
    /\ w_attempt <= w_max_retries
    /\ \E o \in RequestOutcomes :
         /\ w_calls' = Append(w_calls, o)
         /\ IF o.kind = "ok"
            THEN /\ wpc' = "returned"
                 /\ w_result' = Some(o)
                 /\ UNCHANGED <<w_last_exception, w_attempt>>
            ELSE IF ~Retried(o)
            THEN /\ wpc' = "raised"
                 /\ w_result' = Some(o)
                 /\ UNCHANGED <<w_last_exception, w_attempt>>
            ELSE /\ w_last_exception' = Some(o)
                 /\ w_result' = None
                 /\ IF w_attempt < w_max_retries
                    THEN wpc' = "sleep" /\ UNCHANGED w_attempt
                    ELSE wpc' = "loop" /\ w_attempt' = w_attempt + 1
    /\ UNCHANGED <<w_max_retries, w_base_delay, w_max_delay, w_sleeps>>
    /\ UNCHANGED notRetry

\* time.sleep(delay), then the next pass
RetrySleep ==
    /\ wpc = "sleep"
    /\ w_sleeps' = Append(w_sleeps,
                          [calls |-> Len(w_calls),
                           secs |-> RetryBackoff(w_base_delay, w_attempt, w_max_delay)])
    /\ w_attempt' = w_attempt + 1
    /\ wpc' = "loop"
    /\ UNCHANGED <<w_max_retries, w_base_delay, w_max_delay, w_last_exception,
                   w_calls, w_result>>
    /\ UNCHANGED notRetry

\* the loop is over: raise last_exception, or RuntimeError when there is none
RetryExhausted ==
    /\ wpc = "loop"
    /\ w_attempt > w_max_retries
    /\ wpc' = "raised"
    /\ w_result' = IF w_last_exception # None THEN w_last_exception
                   ELSE Some(RetryLogicError)
    /\ UNCHANGED <<w_max_retries, w_base_delay, w_max_delay, w_attempt,
                   w_last_exception, w_calls, w_sleeps>>
    /\ UNCHANGED notRetry

NextRetry ==
    \/ RetryCall
    \/ RetrySleep
    \/ RetryExhausted

(***************************************************************************)
(* src/firemd/firecrawl.py: poll_batch over get_batch_status               *)
(***************************************************************************)
\* page dicts of a batch status response; metadata.sourceURL may be empty
BatchItems ==
    { [sourceURL |-> Some("A"), url |-> None,      other |-> TRUE],
      [sourceURL |-> None,      url |-> Some("B"), other |-> TRUE],
      [sourceURL |-> Some(""),  url |-> Some("A"), other |-> TRUE],
      [sourceURL |-> None,      url |-> None,      other |-> TRUE] }

BatchItemLists == UNION {[1..n -> BatchItems] : n \in 0..MaxDocs}

\* the "next" key of a status response: absent, or a continuation URL
NextLinks == {None, Some("next")}

\* url = item.get("metadata", {}).get("sourceURL", ""); if not url:
\* url = item.get("url", "")
batch_url(item) ==
    LET url == Get(item.sourceURL, "")
    IN  IF url = "" THEN Get(item.url, "") ELSE url

\* poll_batch going on after a "cancelled" status
BatchTerminalNoCancelled == {"completed", "failed"}

\* if status in ("completed", "failed", "cancelled"): break
BatchTerminal == {"completed", "failed", "cancelled"}

\* for item in data_list: if url and url not in seen_urls: add, append
RECURSIVE BatchExtractNew(_, _, _)
BatchExtractNew(items, seen, acc) ==
    IF items = <<>> THEN [seen |-> seen, res |-> acc]
    ELSE LET url == batch_url(Head(items)) IN
         IF url # "" /\ url \notin seen
         THEN BatchExtractNew(Tail(items), seen \cup {url}, Append(acc, url))
         ELSE BatchExtractNew(Tail(items), seen, acc)

InitBatch ==
    /\ bpc = "fetch"
    /\ b_seen = {}
    /\ b_out = <<>>
    /\ b_requests = <<>>
    /\ b_exc = None

IdleBatch ==
    /\ bpc = "idle"
    /\ b_seen = {}
    /\ b_out = <<>>
    /\ b_requests = <<>>
    /\ b_exc = None

\* One cycle of poll_batch: get_batch_status returns status_data, the new
\* pages are extracted, the tuple is yielded, and the loop breaks on a
\* terminal status. The tuple records the job snapshot, the urls of
\* new_results, and (as history) what the response carried.
BatchFetch ==
    /\ bpc = "fetch"
    /\ Len(b_requests) < MaxCycles
    /\ \E hdr \in PollHeaders, items \in BatchItemLists, next \in NextLinks :
          LET status == Get(hdr.status, "unknown")
              x == BatchExtractNew(items, b_seen, <<>>)
          IN  /\ b_seen' = x.seen
              /\ b_out' = Append(b_out,
                     [job |-> [total |-> Get(hdr.total, 0),
                               completed |-> Get(hdr.completed, 0),
                               status |-> status],
                      urls |-> x.res,
                      got |-> {batch_url(items[k]) : k \in 1..Len(items)} \ {""},
                      next |-> next])
              /\ bpc' = IF status \in BatchTerminal THEN "done" ELSE "sleep"
    /\ b_requests' = Append(b_requests, [kind |-> "status", ok |-> TRUE])
    /\ UNCHANGED b_exc
    /\ UNCHANGED notBatch

\* get_batch_status raises FirecrawlError: poll_batch ends with it
BatchFetchFail ==
    /\ bpc = "fetch"
    /\ Len(b_requests) < MaxCycles
    /\ b_requests' = Append(b_requests, [kind |-> "status", ok |-> FALSE])
    /\ b_exc' = Some("FirecrawlError")
    /\ bpc' = "raised"
    /\ UNCHANGED <<b_seen, b_out>>
    /\ UNCHANGED notBatch

\* time.sleep(poll_interval)
BatchSleep ==
    /\ bpc = "sleep"
    /\ bpc' = "fetch"
    /\ UNCHANGED <<b_seen, b_out, b_requests, b_exc>>
    /\ UNCHANGED notBatch

NextBatch ==
    \/ BatchFetch
    \/ BatchFetchFail
    \/ BatchSleep

(***************************************************************************)
(* src/firemd/firecrawl.py: _stream_crawl_ws and _poll_crawl side by side  *)
(*                                                                         *)
(* One backend job delivers the pages tw_deliv in order (a page may be     *)
(* delivered again) and ends with status tw_final. Two stream_crawl runs   *)
(* watch it: one is served by the WebSocket only, which sends a document   *)
(* frame per delivery and then done or error; the other is served by       *)
(* polling only, each status response listing the deliveries made so far.  *)
(***************************************************************************)
\* the page dicts the job delivers (each has a url)
DeliveryItems == {item \in Items : parse_doc(item) # ""}

Deliveries == UNION {[1..n -> DeliveryItems] : n \in 0..MaxDeliveries}

InitTwin ==
    /\ tw_deliv \in Deliveries
    /\ tw_final \in {"completed", "failed"}
    /\ tw_ws_n = 0
    /\ tw_ws_out = <<>>
    /\ tw_ws_status = None
    /\ tw_poll_n = 0
    /\ tw_seen = {}
    /\ tw_poll_out = <<>>
    /\ tw_poll_status = None

IdleTwin ==
    /\ tw_deliv = <<>>
    /\ tw_final = "completed"
    /\ tw_ws_n = 0
    /\ tw_ws_out = <<>>
    /\ tw_ws_status = Some("idle")
    /\ tw_poll_n = 0
    /\ tw_seen = {}
    /\ tw_poll_out = <<>>
    /\ tw_poll_status = Some("idle")

\* _stream_crawl_ws receives the document frame of the next delivery:
\* result = self._parse_doc(data); yield job, [result]
TwinWsDocument ==
    /\ tw_ws_status = None
    /\ tw_ws_n < Len(tw_deliv)
    /\ tw_ws_n' = tw_ws_n + 1
    /\ tw_ws_out' = Append(tw_ws_out, parse_doc(tw_deliv[tw_ws_n + 1]))
    /\ UNCHANGED <<tw_deliv, tw_final, tw_ws_status, tw_poll_n, tw_seen,
                   tw_poll_out, tw_poll_status>>
    /\ UNCHANGED notTwin

\* _stream_crawl_ws receives the closing frame: "done" sets status completed,
\* "error" sets status failed; yield job, []; break
TwinWsEnd ==
    /\ tw_ws_status = None
    /\ tw_ws_n = Len(tw_deliv)
    /\ tw_ws_status' = Some(tw_final)
    /\ UNCHANGED <<tw_deliv, tw_final, tw_ws_n, tw_ws_out, tw_poll_n, tw_seen,
                   tw_poll_out, tw_poll_status>>
    /\ UNCHANGED notTwin

\* One cycle of _poll_crawl: the response lists the first n deliveries, with
\* the final status once all are made and the job is over, "scraping" before.
TwinPoll ==
    /\ tw_poll_status = None
    /\ \E n \in tw_poll_n..Len(tw_deliv), over \in BOOLEAN :
          LET status == IF n = Len(tw_deliv) /\ over THEN tw_final ELSE "scraping"
              x == ExtractNew(SubSeq(tw_deliv, 1, n), tw_seen, <<>>)
          IN  /\ tw_poll_n' = n
              /\ tw_seen' = x.seen
              /\ tw_poll_out' = tw_poll_out \o x.res
              /\ tw_poll_status' = IF status \in TerminalStatuses
                                   THEN Some(status) ELSE None
    /\ UNCHANGED <<tw_deliv, tw_final, tw_ws_n, tw_ws_out, tw_ws_status>>
    /\ UNCHANGED notTwin

NextTwin ==
    \/ TwinWsDocument
    \/ TwinWsEnd
    \/ TwinPoll

(***************************************************************************)
(* Specifications                                                          *)
(***************************************************************************)
NextClassify ==
    \/ CallIsPermanentError
    \/ CallIsSuccess
    \/ CallSuccess

ClassifyStart ==
    /\ InitClassify
    /\ IdleCrawl
    /\ IdleSeq
    /\ IdleManifest
    /\ IdleScrape
    /\ IdleCancel
    /\ IdleBatch
    /\ IdleTwin
    /\ IdleRetry

SpecClassify == ClassifyStart /\ [][NextClassify]_vars

CrawlStart ==
    /\ IdleClassify
    /\ InitCrawl
    /\ IdleSeq
    /\ IdleManifest
    /\ IdleScrape
    /\ IdleCancel
    /\ IdleBatch
    /\ IdleTwin
    /\ IdleRetry

SpecCrawl == CrawlStart /\ [][NextCrawl]_vars

\* stream_crawl driven to its end: the consumer (do_crawl's for loop) keeps
\* asking for the next tuple, every blocking call returns (ws.recv and the HTTP
\* requests have timeouts, time.sleep is finite), and every status request is
\* answered.
NextCrawlAnswered ==
    \/ WsConnect
    \/ WsConnectFail
    \/ WsDocument
    \/ WsCatchup
    \/ WsDone
    \/ WsError
    \/ WsIgnored
    \/ WsReadFail
    \/ PollFetch
    \/ PageFetch
    \/ PageFetchFail
    \/ PollSleep

SpecCrawlLive ==
    CrawlStart /\ [][NextCrawlAnswered]_vars /\ WF_vars(NextCrawlAnswered)

SpecCrawlAbandon == CrawlStart /\ [][NextCrawlAbandon]_vars

SequentialStart ==
    /\ IdleClassify
    /\ IdleCrawl
    /\ InitSeq
    /\ IdleManifest
    /\ IdleScrape
    /\ IdleCancel
    /\ IdleBatch
    /\ IdleTwin
    /\ IdleRetry

SpecSeq == SequentialStart /\ [][NextSeq]_vars

ManifestStart ==
    /\ IdleClassify
    /\ IdleCrawl
    /\ IdleSeq
    /\ InitManifest
    /\ IdleScrape
    /\ IdleCancel
    /\ IdleBatch
    /\ IdleTwin
    /\ IdleRetry

SpecManifest == ManifestStart /\ [][NextManifest]_vars

SpecWriters == ManifestStart /\ [][NextWriters]_vars

ScrapeStart ==
    /\ IdleClassify
    /\ IdleCrawl
    /\ IdleSeq
    /\ IdleManifest
    /\ InitScrape
    /\ IdleCancel
    /\ IdleBatch
    /\ IdleTwin
    /\ IdleRetry

SpecScrape == ScrapeStart /\ [][NextScrape]_vars

CancelStart ==
    /\ IdleClassify
    /\ IdleCrawl
    /\ IdleSeq
    /\ IdleManifest
    /\ IdleScrape
    /\ InitCancel
    /\ IdleBatch
    /\ IdleTwin
    /\ IdleRetry

SpecCancel == CancelStart /\ [][NextCancel]_vars

BatchStart ==
    /\ IdleClassify
    /\ IdleCrawl
    /\ IdleSeq
    /\ IdleManifest
    /\ IdleScrape
    /\ IdleCancel
    /\ InitBatch
    /\ IdleTwin
    /\ IdleRetry

SpecBatch == BatchStart /\ [][NextBatch]_vars

TwinStart ==
    /\ IdleClassify
    /\ IdleCrawl
    /\ IdleSeq
    /\ IdleManifest
    /\ IdleScrape
    /\ IdleCancel
    /\ IdleBatch
    /\ InitTwin
    /\ IdleRetry

SpecTwin == TwinStart /\ [][NextTwin]_vars

RetryStart ==
    /\ IdleClassify
    /\ IdleCrawl
    /\ IdleSeq
    /\ IdleManifest
    /\ IdleScrape
    /\ IdleCancel
    /\ IdleBatch
    /\ IdleTwin
    /\ InitRetry

SpecRetry == RetryStart /\ [][NextRetry]_vars

(***************************************************************************)
(* Properties of stream_crawl                                              *)
(***************************************************************************)
RECURSIVE Count(_, _)
Count(u, seq) ==
    IF seq = <<>> THEN 0
    ELSE (IF Head(seq) = u THEN 1 ELSE 0) + Count(u, Tail(seq))

\* the positions of the tuples of one transport in out
TuplesOf(src) == {k \in 1..Len(out) : out[k].src = src}

RECURSIVE SumCount(_, _)
SumCount(u, ks) ==
    IF ks = {} THEN 0
    ELSE LET k == CHOOSE x \in ks : TRUE IN
         Count(u, out[k].urls) + SumCount(u, ks \ {k})

\* how many times the page of URL u was emitted over one transport
Emitted(u, src) == SumCount(u, TuplesOf(src))

\* C1: once the push phase has failed and the coordinator polls, no tuple of
\* the polling phase carries a page whose URL a tuple of the push phase
\* carried: the polling phase starts from the dedup set the push phase left.
C1_NoReYieldAfterFallback ==
    fail_at # None =>
        \A u \in Urls : Emitted(u, "ws") > 0 => Emitted(u, "poll") = 0

\* C2: in the push phase every URL delivered by a catchup or document frame
\* is emitted, and no URL is emitted twice.
C2_PushPhaseDedup ==
    \A u \in Urls :
        /\ (\E k \in TuplesOf("ws") : u \in out[k].got) => Emitted(u, "ws") >= 1
        /\ Emitted(u, "ws") <= 1

\* C3: a failure of the push phase (opening the connection, or reading from
\* it) is never raised by stream_crawl: it is recorded in _ws_error, the
\* connection is closed, the same job is polled, and every tuple yielded after
\* the failure comes from polling; only a failed status request can end the
\* run with an exception.
C3_PushFailureFallsBackToPolling ==
    /\ exc \in {None, Some("FirecrawlError")}
    /\ polled \subseteq {job_id}
    /\ fail_at # None =>
        /\ ws_error # None
        /\ ~ws_open
        /\ pc \in {"poll", "page", "sleep", "done", "raised"}
        /\ pc = "raised" => (exc = Some("FirecrawlError") /\ polled = {job_id})
        /\ pc \in {"page", "sleep", "done"} => polled = {job_id}
        /\ \A k \in 1..Len(out) :
             (k > Get(fail_at, 0) <=> out[k].src = "poll")

\* C3 witness: the push phase yielded a tuple, then failed, and polling has
\* yielded a tuple since.
C3_Witness ==
    /\ fail_at # None
    /\ Get(fail_at, 0) >= 1
    /\ Len(out) > Get(fail_at, 0)
    /\ out[Len(out)].src = "poll"

\* C4: when the output sequence has ended without an exception, its last
\* tuple carries a terminal status.
C4_EndsOnTerminalStatus ==
    pc = "done" =>
        /\ Len(out) >= 1
        /\ out[Len(out)].status \in {"completed", "failed", "cancelled"}

\* C4 witness: a run served by both transports has ended.
C4_Witness ==
    /\ pc = "done"
    /\ TuplesOf("ws") # {}
    /\ TuplesOf("poll") # {}
    /\ out[Len(out)].status = "cancelled"

\* the poll cycles whose responses carried the page of URL u
CyclesWith(u) == {k \in TuplesOf("poll") : u \in out[k].got}
MinOf(ks) == CHOOSE k \in ks : \A j \in ks : k <= j

\* C5: in the polling phase a page URL is emitted exactly once, in the tuple
\* of the first poll cycle whose responses carried it, and in no other tuple;
\* the list being accumulated for the running cycle obeys the same rule.
C5_PollingEmitsOnceInFirstCycle ==
    \A u \in Urls :
        /\ \A k \in TuplesOf("poll") :
             Count(u, out[k].urls) =
                 IF CyclesWith(u) # {} /\ k = MinOf(CyclesWith(u)) THEN 1 ELSE 0
        /\ Count(u, new_results) =
                 IF CyclesWith(u) = {} /\ u \in cycle_got THEN 1 ELSE 0

\* C5 witness: two poll cycles both carried page A; the second one emitted
\* only page B.
C5_Witness ==
    \E k, l \in TuplesOf("poll") :
        /\ k < l
        /\ "A" \in out[k].got
        /\ "A" \in out[l].got
        /\ out[k].urls = <<"A">>
        /\ out[l].urls = <<"B">>

(***************************************************************************)
(* Properties of scrape_urls_sequential                                    *)
(***************************************************************************)
\* the scrape_url calls made for the k-th url, and the tuples yielded for it
FetchesOf(k) == {j \in 1..Len(fetches) : fetches[j].idx = k}
TuplesFor(k) == {t \in 1..Len(sout) : sout[t].idx = k}
BackoffsOf(k) ==
    {j \in 1..Len(sleeps) : sleeps[j].kind = "backoff" /\ sleeps[j].idx = k}

\* the tuples yielded so far are those of the first urls of the list, one
\* each, in the order of the list, each carrying the requested url; a finished
\* run has yielded one for every url
OneTuplePerUrl ==
    /\ Len(sout) <= Len(urls)
    /\ \A k \in 1..Len(sout) : sout[k].idx = k /\ sout[k].result.url = urls[k]
    /\ spc = "done" => Len(sout) = Len(urls)

\* the tuple of a url is yielded before the generator moves past the url
NoneDropped ==
    /\ spc \in {"fetch", "backoff"} => Len(sout) = i - 1
    /\ spc \in {"after", "polite"} => Len(sout) = i

\* C6, as stated: for every retry budget, scrape_urls_sequential over
\* [u1..un] emits exactly n tuples, the k-th for uk and carrying uk as its url.
C6_OneTuplePerUrlAnyBudget == OneTuplePerUrl

\* C6, amended: for every retry budget max_retries >= 0,
\* scrape_urls_sequential over [u1..un] emits exactly n tuples, the k-th for uk
\* and carrying uk as its url (not the source URL the backend reports), none
\* duplicated, dropped or reordered.
C6_OneTuplePerUrlInOrder == max_retries >= 0 => (OneTuplePerUrl /\ NoneDropped)

\* C6 witness: a finished run over two different urls, the first scraped with
\* a backend-reported source URL that differs from it, the second after a retry.
C6_Witness ==
    /\ spc = "done"
    /\ Len(sout) = 2
    /\ urls[1] # urls[2]
    /\ sout[1].result.source_url = Some("Z")
    /\ sout[2].retry_count >= 1

\* C7: a url whose every attempt returned status 429 is fetched at most
\* max_retries + 1 times, is emitted exactly when the last of them returned,
\* and its tuple has is_permanent = False and retry_count = max_retries.
C7_RateLimitedUrlExhaustsBudget ==
    \A k \in 1..Len(urls) :
        (FetchesOf(k) # {} /\ \A j \in FetchesOf(k) : fetches[j].code = Some(429))
        =>  /\ Cardinality(FetchesOf(k)) <= max_retries + 1
            /\ TuplesFor(k) # {} <=> Cardinality(FetchesOf(k)) = max_retries + 1
            /\ Cardinality(TuplesFor(k)) <= 1
            /\ \A t \in TuplesFor(k) :
                 /\ ~sout[t].permanent
                 /\ sout[t].retry_count = max_retries
                 /\ sout[t].result.status_code = Some(429)

\* C7 witness: a url answered 429 three times under max_retries = 2 has been
\* emitted.
C7_Witness ==
    /\ max_retries = 2
    /\ \E k \in 1..Len(urls) :
         /\ Cardinality(FetchesOf(k)) = 3
         /\ \A j \in FetchesOf(k) : fetches[j].code = Some(429)
         /\ TuplesFor(k) # {}

PermanentCode(code) ==
    \E c \in code : 400 <= c /\ c < 500 /\ c \notin {408, 429}

\* C8: an attempt that returns a permanent status (4xx other than 408/429) is
\* the last fetch of its url; the url is emitted at once with
\* is_permanent = True and retry_count = the number of retries made before,
\* and no backoff sleep follows the attempt.
C8_PermanentStopsRetrying ==
    \A j \in 1..Len(fetches) :
        PermanentCode(fetches[j].code) =>
            LET k == fetches[j].idx IN
            /\ \A j2 \in FetchesOf(k) : j2 <= j
            /\ \E t \in TuplesFor(k) :
                 /\ sout[t].permanent
                 /\ sout[t].retry_count = Cardinality(FetchesOf(k)) - 1
                 /\ sout[t].result.status_code = fetches[j].code
            /\ Cardinality(BackoffsOf(k)) = Cardinality(FetchesOf(k)) - 1
            /\ ~(spc = "backoff" /\ i = k)

\* C8 witness: with max_retries = 2, one url got 404 on its first attempt and
\* another got 404 on its second attempt; both were emitted as permanent.
C8_Witness ==
    /\ max_retries = 2
    /\ Len(sout) = 2
    /\ sout[1].permanent /\ sout[1].retry_count = 0
    /\ Cardinality(FetchesOf(1)) = 1 /\ BackoffsOf(1) = {}
    /\ sout[2].permanent /\ sout[2].retry_count = 1
    /\ sout[2].result.status_code = Some(404)

\* C9: a failed fetch never makes scrape_urls_sequential raise or stop: the
\* generator always has a next step until it is exhausted, a url whose last
\* fetch failed is emitted with that failed result, and a finished run in
\* which a fetch failed has fetched and emitted every url of the list.
C9_FailuresNeverAbortTheRun ==
    /\ spc # "raised"
    /\ spc # "done" => ENABLED NextSeq
    /\ \A k \in 1..Len(urls) :
         (\E j \in FetchesOf(k) : ~fetches[j].ok) =>
             \/ TuplesFor(k) = {} /\ i = k /\ spc \in {"fetch", "backoff"}
             \/ \E t \in TuplesFor(k) :
                  LET last == fetches[MinOf({j \in FetchesOf(k) :
                                   \A j2 \in FetchesOf(k) : j2 <= j})]
                  IN /\ success(sout[t].result) = last.ok
                     /\ sout[t].result.status_code = last.code
    /\ (spc = "done" /\ \E j \in 1..Len(fetches) : ~fetches[j].ok) =>
         \A k \in 1..Len(urls) : TuplesFor(k) # {} /\ FetchesOf(k) # {}

\* C9 witness: a finished run whose first url failed at the API level on
\* every attempt (no status, an error message, retries exhausted) and whose
\* second url was then scraped successfully.
C9_Witness ==
    /\ spc = "done"
    /\ Len(sout) = 2
    /\ max_retries >= 1
    /\ sout[1].result.status_code = None
    /\ sout[1].result.error # None
    /\ sout[1].retry_count = max_retries
    /\ success(sout[2].result)

(***************************************************************************)
(* Properties of is_permanent_error                                        *)
(***************************************************************************)
\* C10: is_permanent_error(c) is true exactly when c is a status with
\* 400 <= c < 500 other than 408 and 429 (so not for None, 408, 429, 5xx or
\* any other code), and no status is both successful (2xx) and permanent.
C10_PermanentIffClientError ==
    /\ c_perm # None =>
         (c_perm = Some(TRUE) <=>
             \E c \in c_in : 400 <= c /\ c < 500 /\ c # 408 /\ c # 429)
    /\ (c_perm # None /\ c_succ # None) =>
         ~(c_perm = Some(TRUE) /\ c_succ = Some(TRUE))

\* C10 witness: 429 has been classified, as not permanent and not successful.
C10_Witness ==
    /\ c_in = Some(429)
    /\ c_perm = Some(FALSE)
    /\ c_succ = Some(FALSE)

(***************************************************************************)
(* Properties of ScrapeResult.success                                      *)
(***************************************************************************)
\* C11: an outcome counts as success exactly when its status is present with
\* 200 <= status < 300 and its content is non-empty; so a 2xx outcome with
\* empty content, a non-2xx outcome with content and an outcome without a
\* status are all not success.
C11_SuccessIffTwoXXAndContent ==
    c_res # None =>
        /\ c_res = Some(TRUE) <=>
              /\ \E c \in c_in : 200 <= c /\ c < 300
              /\ c_md # ""
        /\ (c_md = "" \/ c_in = None) => c_res = Some(FALSE)
        /\ (\E c \in c_in : c < 200 \/ c >= 300) => c_res = Some(FALSE)

\* C11 witness: a 204 outcome with empty content was judged not successful.
C11_Witness ==
    /\ c_in = Some(204)
    /\ c_md = ""
    /\ c_res = Some(FALSE)

(***************************************************************************)
(* Properties of manifest.py                                               *)
(***************************************************************************)
\* the lines of the manifest that hold an entry written for url u
WrittenFor(u) == {k \in 1..Len(m_written) : \E e \in m_written[k] : e.url = u}

\* the entry written last for url u
LastWritten(u) == CHOOSE e \in m_written[MaxOf(WrittenFor(u))] : TRUE

\* C12: load_manifest maps exactly the urls that have an entry in the file,
\* each to the entry written last for it in file order: the loaded entry
\* carries the timestamp, status, file and http status of that last write
\* (as far as the line records them), whatever entries of other urls and
\* whatever invalid lines lie in between.
C12_LastWriteWins ==
    \A loaded \in m_loaded :
        /\ DOMAIN loaded = {u \in Urls : WrittenFor(u) # {}}
        /\ \A u \in DOMAIN loaded :
              /\ loaded[u].url = u
              /\ loaded[u].ts = MaxOf(WrittenFor(u))
              /\ loaded[u].ts = LastWritten(u).ts
              /\ loaded[u].status = LastWritten(u).status
              /\ loaded[u].file = LastWritten(u).file

\* C12 witness: A was written as ok, then B, then A as error, and the load
\* maps A to the third line.
C12_Witness ==
    /\ Len(m_written) = 3
    /\ \E e \in m_written[1] : e.url = "A" /\ e.status = "ok"
    /\ \E e \in m_written[2] : e.url = "B"
    /\ \E e \in m_written[3] : e.url = "A" /\ e.status = "error"
    /\ \E loaded \in m_loaded : loaded["A"].ts = 3 /\ loaded["A"].status = "error"

\* C14: one entry written to an empty manifest and loaded back gives one
\* entry, for the written url, with the written url, file and status, and
\* every optional field that was None when written is None when read.
C14_RoundTrip ==
    (Len(m_written) = 1 /\ m_written[1] # None) =>
        \A e \in m_written[1], loaded \in m_loaded :
            /\ DOMAIN loaded = {e.url}
            /\ loaded[e.url].url = e.url
            /\ loaded[e.url].file = e.file
            /\ loaded[e.url].status = e.status
            /\ e.title = None => loaded[e.url].title = None
            /\ e.http_status = None => loaded[e.url].http_status = None
            /\ e.error = None => loaded[e.url].error = None

\* C14 witness: an entry without title, http status and error was written,
\* alone, and read back without them.
C14_Witness ==
    /\ Len(m_written) = 1
    /\ \E e \in m_written[1], loaded \in m_loaded :
          /\ e.title = None /\ e.http_status = None /\ e.error = None
          /\ e.url \in DOMAIN loaded
          /\ loaded[e.url].title = None
          /\ loaded[e.url].http_status = None
          /\ loaded[e.url].error = None
          /\ loaded[e.url].file = "a.md"

(***************************************************************************)
(* Properties of do_scrape                                                 *)
(***************************************************************************)
\* the manifest as the running process found it
FoundManifest == SubSeq(manifest, 1, d_mark.manifest)

\* the lines the process found for url u
FoundFor(u) == {k \in 1..Len(FoundManifest) : FoundManifest[k].obj["url"] = u}

\* the last line found for u says status ok with a 2xx http status
LastIsOk2xx(u) ==
    /\ FoundFor(u) # {}
    /\ LET d == FoundManifest[MaxOf(FoundFor(u))].obj
       IN  /\ d["status"] = "ok"
           /\ "http_status" \in DOMAIN d
           /\ 200 <= d["http_status"] /\ d["http_status"] < 300

ToBeProcessed(u) == overwrite \/ ~LastIsOk2xx(u)

\* C13: once the manifest is loaded, the urls the run goes on with are the
\* input urls, in order, minus exactly those whose last manifest entry has
\* status ok and a 2xx http status; with the overwrite flag none is left out.
C13_SkipsOnlyDoneUrls ==
    dpc \in {"first", "cooldown", "retry", "exit"} =>
        d_urls = SelectSeq(d_input, ToBeProcessed)

\* C13 witness: the manifest held ok(200) and then an error for A; without
\* the overwrite flag A is processed again, and it has been submitted.
C13_Witness ==
    /\ ~overwrite
    /\ d_run = 1
    /\ d_mark.manifest = 2
    /\ FoundManifest[1].obj["url"] = "A" /\ FoundManifest[1].obj["status"] = "ok"
    /\ FoundManifest[2].obj["url"] = "A" /\ FoundManifest[2].obj["status"] = "error"
    /\ d_input = <<"A">>
    /\ d_urls = <<"A">>
    /\ Len(d_log) = 1 /\ d_log[1].url = "A" /\ d_log[1].emitted

\* C15: a process started without the overwrite flag after a run that left
\* every url of the file successful calls scrape_url for no url and appends
\* no line to manifest.jsonl or errors.jsonl.
C15_RerunIsIdempotent ==
    (d_run > 1 /\ prev_all_ok) =>
        /\ ~d_fetched
        /\ d_log = <<>>
        /\ Len(manifest) = d_mark.manifest
        /\ Len(errors) = d_mark.errors
        /\ dpc \in {"load", "exit"}

\* C15 witness: the first process scraped A and B successfully (its two lines
\* are in the manifest), and the second process has exited.
C15_Witness ==
    /\ d_run = 2
    /\ prev_all_ok
    /\ dpc = "exit"
    /\ d_input = <<"A", "B">>
    /\ \E j, k \in 1..Len(manifest) :
          /\ manifest[j].obj["url"] = "A" /\ manifest[j].obj["ts"] = 1
          /\ manifest[k].obj["url"] = "B" /\ manifest[k].obj["ts"] = 1

\* number of lines the running process appended to errors.jsonl for url u
NewErrorsFor(u) ==
    Cardinality({k \in (d_mark.errors + 1)..Len(errors) : errors[k].obj["url"] = u})

\* the final outcome of u in the running process is a failure
FinalFailure(u) ==
    \E k \in 1..Len(d_log) :
        /\ d_log[k].url = u
        /\ d_log[k].emitted
        /\ \/ d_log[k].pass = "first" /\ d_log[k].perm
           \/ d_log[k].pass = "retry" /\ ~d_log[k].ok

NoDuplicates(list) == \A j, k \in 1..Len(list) : list[j] = list[k] => j = k

\* C16: errors.jsonl holds only entries with status error, and a finished
\* run over distinct urls has appended to it exactly one entry for each url
\* whose final outcome is a failure and none for any other url.
C16_ErrorsFileHoldsFinalFailures ==
    /\ \A k \in 1..Len(errors) : errors[k].obj["status"] = "error"
    /\ (dpc = "exit" /\ NoDuplicates(d_input)) =>
          \A u \in SeqUrls : NewErrorsFor(u) = (IF FinalFailure(u) THEN 1 ELSE 0)

\* C16 witness: a finished run over A, B in which A failed permanently in
\* the first pass and B still failed after the retry pass; errors.jsonl got
\* one line for each.
C16_Witness ==
    /\ dpc = "exit"
    /\ d_input = <<"A", "B">>
    /\ Len(d_log) = 3
    /\ d_log[1].url = "A" /\ d_log[1].perm
    /\ d_log[2].url = "B" /\ ~d_log[2].ok /\ ~d_log[2].perm
    /\ d_log[3].pass = "retry" /\ d_log[3].url = "B" /\ ~d_log[3].ok
    /\ NewErrorsFor("A") = 1
    /\ NewErrorsFor("B") = 1

\* the urls of the first-pass tuples that were failed and not permanent
RECURSIVE FirstPassRetryable(_)
FirstPassRetryable(log) ==
    IF log = <<>> THEN <<>>
    ELSE (IF /\ Head(log).pass = "first" /\ Head(log).emitted
             /\ ~Head(log).ok /\ ~Head(log).perm
          THEN <<Head(log).url>> ELSE <<>>) \o FirstPassRetryable(Tail(log))

\* the urls submitted to the retry pass
RECURSIVE Resubmitted(_)
Resubmitted(log) ==
    IF log = <<>> THEN <<>>
    ELSE (IF Head(log).pass = "retry" THEN <<Head(log).url>> ELSE <<>>)
         \o Resubmitted(Tail(log))

IsPrefix(s, t) == Len(s) <= Len(t) /\ s = SubSeq(t, 1, Len(s))

C18_CancelIsBestEffort ==
    /\ k_escaped = None
    /\ kpc # "crashed"
    /\ \A k \in 1..Len(k_deletes) : k_deletes[k] \in crawl_job
    /\ k_deletes # <<>> => k_interrupted
    /\ Len(k_deletes) <= ClientMaxRetries + 1
    /\ kpc = "cancel" => ENABLED DeleteAttempt
    /\ kpc = "cancel_sleep" => ENABLED CancelBackoff
    /\ (kpc = "after" /\ k_interrupted /\ crawl_job # None) => k_deletes # <<>>

\* C18 witness: the crawl for job-1 was interrupted after two tuples, the
\* one DELETE ended in an exception outside the HTTP layer, and cancel_crawl
\* returned.
C18_Witness ==
    /\ kpc = "after"
    /\ k_interrupted
    /\ k_tuples = 2
    /\ k_deletes = <<"job-1">>
    /\ k_swallowed = Some("Other")
    /\ k_escaped = None

(***************************************************************************)
(* Properties of poll_batch                                                *)
(***************************************************************************)
\* the statuses that end a job
EndStatuses == {"completed", "failed", "cancelled"}

\* number of tuples of poll_batch that carry url u among their new pages
BatchEmitted(u) ==
    Cardinality({<<k, j>> \in (1..Len(b_out)) \X (1..MaxDocs) :
                    j <= Len(b_out[k].urls) /\ b_out[k].urls[j] = u})

\* C20: poll_batch issues nothing but status requests, one per cycle, also
\* when a response names a continuation; every answered request yields
\* exactly one tuple (a failed one ends the run with an error); a page url
\* is emitted at most once over the run, in the first cycle whose response
\* carries it; no tuple before the last has a terminal status, and after a
\* tuple with status completed, failed or cancelled the run is over.
C20_PollBatchCycles ==
    /\ \A k \in 1..Len(b_requests) : b_requests[k].kind = "status"
    /\ Len(b_out) = Cardinality({k \in 1..Len(b_requests) : b_requests[k].ok})
    /\ Len(b_requests) <= Len(b_out) + 1
    /\ \A u \in Urls : BatchEmitted(u) <= 1
    /\ \A k \in 1..Len(b_out) : \A u \in b_out[k].got :
          \E j \in 1..k : \E n \in 1..Len(b_out[j].urls) : b_out[j].urls[n] = u
    /\ \A k \in 1..Len(b_out) :
          b_out[k].job.status \in EndStatuses => (k = Len(b_out) /\ bpc = "done")
    /\ bpc = "done" =>
          (b_out # <<>> /\ b_out[Len(b_out)].job.status \in EndStatuses)
    /\ bpc = "sleep" => b_out[Len(b_out)].job.status \notin EndStatuses

\* C20 witness: the first response (status scraping, a continuation link)
\* carried A, the second (cancelled) carried A and B; the tuples are <<A>>
\* and <<B>>, two requests were made, and the run is over.
C20_Witness ==
    /\ bpc = "done"
    /\ Len(b_out) = 2
    /\ Len(b_requests) = 2
    /\ b_out[1].job.status = "scraping" /\ b_out[1].next # None
    /\ b_out[1].urls = <<"A">>
    /\ b_out[2].job.status = "cancelled"
    /\ b_out[2].got = {"A", "B"}
    /\ b_out[2].urls = <<"B">>

(***************************************************************************)
(* Properties of the two transports side by side                           *)
(***************************************************************************)
\* C19: once both runs are over, the WebSocket run and the polling run have
\* yielded the same set of page urls, each url exactly once in either run,
\* and both ended with the same terminal status, whatever the job delivered
\* (re-deliveries of a page included).
C19_TransportsAgree ==
    (tw_ws_status # None /\ tw_poll_status # None) =>
        /\ Range(tw_ws_out) = Range(tw_poll_out)
        /\ \A u \in Urls : Count(u, tw_ws_out) <= 1
        /\ \A u \in Urls : Count(u, tw_poll_out) <= 1
        /\ \A u \in UrlsOf(tw_deliv) :
              Count(u, tw_ws_out) = 1 /\ Count(u, tw_poll_out) = 1
        /\ tw_ws_status = tw_poll_status

(***************************************************************************)
(* Properties of stream_crawl: the course of a run                         *)
(***************************************************************************)
\* C21: when the job ends after finitely many frames and responses and every
\* status request is answered, stream_crawl reaches the end of its output
\* without raising, whatever it was sent before and whichever transport
\* failures happened on the way.
C21_ConsumedToCompletion == <>[](pc = "done" /\ exc = None)

\* C21 witness: a run that read a document frame, lost the connection, polled,
\* failed to fetch a continuation page, slept, polled again and ended on
\* "cancelled".
C21_Witness ==
    /\ pc = "done"
    /\ io = <<"connect", "document", "yield", "recv_fail", "status",
              "page_fail", "yield", "sleep", "status", "yield">>
    /\ out[Len(out)].status = "cancelled"

\* the tuple yielded at position p of io (io[p] = "yield")
YieldsUpTo(p) == Cardinality({q \in 1..p : io[q] = "yield"})
TupleAt(p) == out[YieldsUpTo(p)]

\* C22: a "done" frame sets the job status to completed and an "error" frame
\* sets it to failed; either way exactly one tuple with an empty page list
\* follows, it is the last thing the run does (no further frame is read, no
\* status request is sent, nothing is raised), and it is the last tuple of
\* the output.
C22_DoneAndErrorEndThePushPhase ==
    \A p \in 1..Len(io) :
        io[p] \in {"done", "error"} =>
            LET status == IF io[p] = "done" THEN "completed" ELSE "failed" IN
            /\ Len(io) = p + 1
            /\ io[p + 1] = "yield"
            /\ YieldsUpTo(p + 1) = Len(out)
            /\ out[Len(out)] = Tuple("ws", status, <<>>, {})
            /\ job.status = status
            /\ pc = "done"
            /\ ~ENABLED NextCrawl
            /\ exc = None
            /\ fail_at = None
            /\ ws_error = None
            /\ polled = {}
            /\ ~ws_open

\* C22 witness: after a catchup frame that reported pages, an "error" frame
\* ended the run with a failed tuple.
C22_Witness ==
    /\ io = <<"connect", "catchup", "yield", "error", "yield">>
    /\ out[1].urls # <<>>
    /\ out[2].status = "failed"

\* the value a catchup frame leaves in a field of the job snapshot
FromMessage(field, old) == IF field = None THEN old ELSE Get(field, old)

\* a step that handles a catchup frame
CatchupStep == io' = io \o <<"catchup", "yield">>

\* some catchup frame explains the change of the job snapshot in this step
SnapshotFromSomeCatchup ==
    \E h \in CatchupHeaders :
        /\ job'.total = FromMessage(h.total, job.total)
        /\ job'.completed = FromMessage(h.completed, job.completed)
        /\ job'.status = FromMessage(h.status, job.status)

\* every catchup frame read so far was followed at once by a yield
CatchupAlwaysYields ==
    \A p \in 1..Len(io) :
        io[p] = "catchup" => (p < Len(io) /\ io[p + 1] = "yield")

\* C23: handling a catchup frame sets total, completed and status of the job
\* snapshot from the frame, a field the frame omits keeping its value, and
\* yields exactly one tuple carrying the new status, whether or not the frame
\* lists any page; the run then reads the next frame.
C23_CatchupUpdatesSnapshotAndYields ==
    /\ []CatchupAlwaysYields
    /\ [][CatchupStep =>
            /\ SnapshotFromSomeCatchup
            /\ Len(out') = Len(out) + 1
            /\ SubSeq(out', 1, Len(out)) = out
            /\ out'[Len(out')].src = "ws"
            /\ out'[Len(out')].status = job'.status
            /\ pc' = "recv"]_vars

\* C23 witness: a first catchup frame reported total 2 and status completed
\* with a page; a second one omitted every field and listed no page, and a tuple
\* with an empty page list and the kept status was yielded for it.
C23_Witness ==
    /\ io = <<"connect", "catchup", "yield", "catchup", "yield">>
    /\ out[1].urls # <<>>
    /\ out[2].urls = <<>>
    /\ out[2].status = "completed"
    /\ job = [total |-> 2, completed |-> 0, status |-> "completed"]

\* a step that reads an empty frame or a frame of an unknown kind
IgnoredStep == io' = Append(io, "ignored")

\* C24: a frame that is empty or of a kind other than catchup, document, done
\* and error changes nothing but the count of frames read: no tuple is
\* yielded, the job snapshot and the dedup set stay as they were, the
\* connection stays open, nothing is raised, polling is not started, and the
\* run waits for the next frame.
C24_UnknownFramesAreIgnored ==
    [][IgnoredStep =>
        /\ pc = "recv" /\ pc' = "recv"
        /\ ws_open /\ ws_open'
        /\ UNCHANGED <<job_id, job, seen_urls, new_results, cycle_got, out,
                       ws_error, exc, polled, fail_at>>]_vars

\* C24 witness: an unknown frame was read first, then a document frame was
\* handled and a "done" frame ended the run with two tuples.
C24_Witness ==
    /\ nEvents = 3
    /\ SubSeq(io, 1, 4) = <<"connect", "ignored", "document", "yield">>
    /\ Len(out) = 2
    /\ pc = "done"

\* the position in io of the status request that opened the poll cycle whose
\* tuple was yielded at position p
CycleStart(p) ==
    CHOOSE q \in 1..p : io[q] = "status" /\ \A r \in (q + 1)..p : io[r] # "status"

\* the continuation pages fetched in the poll cycle that yielded at position p
PagesOfCycle(p) == {q \in CycleStart(p)..p : io[q] = "page"}

\* the page URLs the poll cycles before the tuple k were sent
GotBefore(k) == UNION {out[j].got : j \in {j2 \in TuplesOf("poll") : j2 < k}}

\* the tuples yielded by poll cycles, as positions of io
PollYields ==
    {p \in 2..Len(io) : io[p] = "yield" /\ io[p - 1] \in {"status", "page", "page_fail"}}

\* C25: a continuation page is fetched right after the status response or the
\* continuation page that linked to it, with no yield and no sleep in
\* between; a poll cycle yields exactly one tuple, after the last page of the
\* chain, and that tuple lists once each, in order of arrival, the page URLs
\* of the whole cycle that no earlier cycle was sent.
C25_ContinuationsFoldIntoOneTuple ==
    /\ \A p \in 1..Len(io) :
         io[p] \in {"page", "page_fail"} => (p > 1 /\ io[p - 1] \in {"status", "page"})
    /\ \A p \in 1..Len(io) :
         (io[p] = "page" /\ p < Len(io)) => io[p + 1] \in {"page", "page_fail", "yield"}
    /\ \A p \in 1..Len(io) :
         (io[p] = "status" /\ p < Len(io)) => io[p + 1] \in {"page", "page_fail", "yield"}
    /\ \A p \in PollYields :
         LET t == TupleAt(p) IN
         /\ t.src = "poll"
         /\ Cardinality({q \in CycleStart(p)..p : io[q] = "yield"}) = 1
         /\ Range(t.urls) = t.got \ GotBefore(YieldsUpTo(p))
         /\ \A u \in Urls : Count(u, t.urls) <= 1
    /\ pc = "page" <=>
         (io # <<>> /\ io[Len(io)] \in {"status", "page"} /\
          \E q \in 1..Len(io) : io[q] = "status")

\* C25 witness: the status response listed A and linked to a page listing A and
\* B, which linked to a page listing B; one tuple with A then B was yielded.
C25_Witness ==
    /\ io = <<"connect_fail", "status", "page", "page", "yield">>
    /\ out = <<Tuple("poll", "scraping", <<"A", "B">>, {"A", "B"})>>

\* C26: a poll cycle that yields a tuple with status completed, failed or
\* cancelled is the last thing the run does: no request and no sleep follow.
\* After a tuple with any other status, an unknown or missing one included,
\* the run sleeps once and then sends the next status request; a status
\* request is either the first of the polling phase or comes right after a
\* sleep, and a sleep comes only right after the tuple of a poll cycle.
C26_PollCadence ==
    /\ \A p \in PollYields :
         IF TupleAt(p).status \in EndStatuses
         THEN /\ p = Len(io)
              /\ pc = "done"
              /\ ~ENABLED NextCrawl
         ELSE /\ p = Len(io) => pc = "sleep"
              /\ p < Len(io) => io[p + 1] = "sleep"
              /\ p + 1 = Len(io) => pc = "poll"
              /\ p + 1 < Len(io) => io[p + 2] \in {"status", "status_fail"}
    /\ \A p \in 1..Len(io) :
         io[p] \in {"status", "status_fail"} =>
             (p > 1 /\ io[p - 1] \in {"connect_fail", "recv_fail", "sleep"})
    /\ \A p \in 1..Len(io) :
         io[p] = "sleep" => (p - 1) \in PollYields
    /\ pc = "sleep" => (ENABLED PollSleep /\ Len(io) \in PollYields)

\* C26 witness: the first status response had no status key; the run yielded a
\* tuple with status unknown, slept, fetched again and ended on completed.
C26_Witness ==
    /\ io = <<"connect_fail", "status", "yield", "sleep", "status", "yield">>
    /\ out[1].status = "unknown"
    /\ out[2].status = "completed"
    /\ pc = "done"

(***************************************************************************)
(* Properties of scrape_urls_sequential: counts, delays, callbacks         *)
(***************************************************************************)
\* the last scrape_url call made for the k-th url
LastFetchOf(k) == CHOOSE j \in FetchesOf(k) : \A j2 \in FetchesOf(k) : j2 <= j

\* C27: under max_retries >= 0 no url is fetched more than max_retries + 1
\* times; the tuple of a url carries as retry_count the number of fetches
\* issued for it minus one; a successful fetch is the last fetch of its url and
\* the url is emitted at once as (result, False, number of fetches before it).
C27_RetryCountIsFetchesMinusOne ==
    max_retries >= 0 =>
        \A k \in 1..Len(urls) :
            /\ Cardinality(FetchesOf(k)) <= max_retries + 1
            /\ \A t \in TuplesFor(k) :
                 /\ FetchesOf(k) # {}
                 /\ sout[t].retry_count = Cardinality(FetchesOf(k)) - 1
                 /\ sout[t].retry_count \in 0..max_retries
            /\ \A j \in FetchesOf(k) :
                 fetches[j].ok =>
                     /\ j = LastFetchOf(k)
                     /\ \E t \in TuplesFor(k) :
                          /\ success(sout[t].result)
                          /\ ~sout[t].permanent
                          /\ sout[t].retry_count =
                               Cardinality({j2 \in FetchesOf(k) : j2 < j})

\* C27 witness: with max_retries = 2 the first url succeeded on its third fetch
\* and was emitted with retry_count 2; the second url has been fetched since.
C27_Witness ==
    /\ max_retries = 2
    /\ Len(sout) >= 1
    /\ success(sout[1].result)
    /\ sout[1].retry_count = 2
    /\ ~sout[1].permanent
    /\ Cardinality(FetchesOf(1)) = 3
    /\ FetchesOf(2) # {}

\* the backoff sleeps taken for the k-th url, in order
BackoffSecs(k) ==
    LET F[n \in 0..Len(sleeps)] ==
            IF n = 0 THEN <<>>
            ELSE IF sleeps[n].kind = "backoff" /\ sleeps[n].idx = k
                 THEN Append(F[n - 1], sleeps[n].secs)
                 ELSE F[n - 1]
    IN F[Len(sleeps)]

FailedFetchesOf(k) == {j \in FetchesOf(k) : ~fetches[j].ok}

\* C28: the n-th backoff sleep of a url (n = 0 after its first attempt) lasts
\* exactly min(2^n, max_backoff) seconds, so the delays of a url are 1, 2, 4,
\* ... capped at max_backoff and never decrease; each follows a failed attempt,
\* and the attempt that uses up the budget is followed by none.
C28_BackoffDoublesUpToCap ==
    \A k \in 1..Len(urls) :
        LET d == BackoffSecs(k) IN
        /\ \A n \in 1..Len(d) :
             d[n] = (IF 2^(n - 1) <= max_backoff THEN 2^(n - 1) ELSE max_backoff)
        /\ \A n \in 1..(Len(d) - 1) : d[n] <= d[n + 1]
        /\ Len(d) <= Cardinality(FailedFetchesOf(k))
        /\ Len(d) = IF spc \in {"backoff", "fetch"} /\ i = k
                    THEN Cardinality(FetchesOf(k))
                    ELSE MaxOf({0, Cardinality(FetchesOf(k)) - 1})
        /\ (FetchesOf(k) # {} /\ Cardinality(FetchesOf(k)) = max_retries + 1) =>
             (Len(d) = max_retries /\ ~(spc = "backoff" /\ i = k))

\* C28 witness: under max_retries = 2 the first url failed three times, once
\* without a status; with max_backoff = 32 its two backoff sleeps lasted 1 and
\* 2 seconds, and it was emitted after the third failure with no further sleep.
C28_Witness ==
    /\ max_retries = 2
    /\ max_backoff = 32
    /\ BackoffSecs(1) = <<1, 2>>
    /\ Cardinality(FailedFetchesOf(1)) = 3
    /\ \E j \in FetchesOf(1) : fetches[j].code = None
    /\ TuplesFor(1) # {}
    /\ spc = "after"
    /\ sleeps = <<Sleep("backoff", 1, 1, sleeps[1].calls),
                  Sleep("backoff", 1, 2, sleeps[2].calls)>>

\* the politeness sleeps taken after the k-th url
PolitenessOf(k) ==
    {j \in 1..Len(sleeps) : sleeps[j].kind = "politeness" /\ sleeps[j].idx = k}

\* the generator has gone past the politeness test of the k-th url
PastPoliteness(k) == k < i \/ spc = "done" \/ (k = i /\ spc = "polite")

\* one politeness sleep of 0..delay seconds for every url but the last when
\* delay > 0, whatever the url's outcome, and none otherwise
PolitenessCount ==
    \A k \in 1..Len(urls) :
        /\ \A j \in PolitenessOf(k) : sleeps[j].secs \in 0..delay
        /\ PolitenessOf(k) # {} => PastPoliteness(k)
        /\ PastPoliteness(k) =>
             Cardinality(PolitenessOf(k)) =
                 IF k < Len(urls) /\ delay > 0 THEN 1 ELSE 0

\* a politeness sleep is taken only once the tuple of its url has been emitted
PolitenessFollowsTuple ==
    \A k \in 1..Len(urls) : PolitenessOf(k) # {} => TuplesFor(k) # {}

\* C29, as stated: a politeness sleep of 0..delay seconds is taken exactly
\* once after the tuple of every url but the last has been emitted, when
\* delay > 0, whatever the outcome; none after the last url, none for a list
\* of one or no url, none when delay is 0.
C29_PolitenessAfterEachTuple == PolitenessCount /\ PolitenessFollowsTuple

\* C29, amended: the same count of politeness sleeps for every retry budget,
\* each sleep following the tuple of its url when max_retries >= 0 (under a
\* negative max_retries no tuple is emitted and the sleeps are still taken).
C29_PolitenessBetweenUrls ==
    /\ PolitenessCount
    /\ max_retries >= 0 => PolitenessFollowsTuple
    /\ max_retries < 0 => sout = <<>>

\* C29 witness: with delay = 1 and max_retries = 1, a finished run over two
\* urls whose first url failed permanently: one politeness sleep, taken after
\* the first url, and none after the second.
C29_Witness ==
    /\ spc = "done"
    /\ delay = 1
    /\ max_retries = 1
    /\ Len(urls) = 2
    /\ Len(sout) = 2
    /\ sout[1].permanent
    /\ Cardinality(PolitenessOf(1)) = 1
    /\ PolitenessOf(2) = {}

\* the on_retry calls made for the k-th url, as positions of retry_calls
CallsOf(k) == {c \in 1..Len(retry_calls) : retry_calls[c].idx = k}

\* the n-th smallest element of a set of positions
NthOf(S, n) == CHOOSE j \in S : Cardinality({j2 \in S : j2 <= j}) = n

BackoffsUpTo(j) == {j2 \in 1..j : sleeps[j2].kind = "backoff"}

\* C30: without a callback nothing is called. With one, on_retry is called
\* once for every retry of a url, before the backoff sleep of that retry
\* starts, with the url, the number of the retry (1 for the first) and the
\* status of the attempt that just failed; a success, a permanent failure and
\* the attempt that uses up the budget cause no call, so a url's tuple carries
\* as retry_count the number of calls made for it.
C30_OnRetryOncePerRetry ==
    /\ ~on_retry => retry_calls = <<>>
    /\ on_retry =>
         /\ \A k \in 1..Len(urls) :
              /\ Cardinality(CallsOf(k)) = Cardinality(BackoffsOf(k))
              /\ \A t \in TuplesFor(k) :
                   Cardinality(CallsOf(k)) = sout[t].retry_count
              /\ \A n \in 1..Cardinality(CallsOf(k)) :
                   LET call == retry_calls[NthOf(CallsOf(k), n)]
                       f == fetches[NthOf(FetchesOf(k), n)]
                   IN /\ call.url = urls[k]
                      /\ call.n = n
                      /\ call.code = f.code
                      /\ ~f.ok
                      /\ ~PermanentCode(f.code)
                      /\ n <= max_retries
         /\ \A j \in 1..Len(sleeps) :
              sleeps[j].kind = "backoff" =>
                  sleeps[j].calls = Cardinality(BackoffsUpTo(j))

\* C30 witness: with a callback and max_retries = 2, url A answered 429, then
\* failed without a status, then succeeded: on_retry was called with
\* (A, 1, 429) and (A, 2, None), and A was emitted with retry_count 2.
C30_Witness ==
    /\ on_retry
    /\ max_retries = 2
    /\ Len(sout) = 1
    /\ success(sout[1].result)
    /\ sout[1].retry_count = 2
    /\ retry_calls = <<[idx |-> 1, url |-> "A", n |-> 1, code |-> Some(429)],
                       [idx |-> 1, url |-> "A", n |-> 2, code |-> None]>>

(***************************************************************************)
(* Properties of scrape_urls_sequential: one url at a time                 *)
(***************************************************************************)
\* a step in which scrape_url is called
FetchStep == fetches' # fetches

\* C31: scrape_url calls are made one at a time, each for the url the loop is
\* at and before that url's tuple is emitted; the calls of a url are
\* consecutive, those of url k + 1 begin only once the tuple of url k has
\* been emitted, and an emitted url is never fetched again.
C31_OneUrlAtATime ==
    /\ [](\A j \in 1..Len(fetches) :
            /\ fetches[j].idx \in 1..i
            /\ fetches[j].url = urls[fetches[j].idx]
            /\ \A j2 \in 1..j : fetches[j2].idx <= fetches[j].idx
            /\ fetches[j].idx > 1 => TuplesFor(fetches[j].idx - 1) # {}
            /\ fetches[j].idx < i => TuplesFor(fetches[j].idx) # {})
    /\ [][FetchStep =>
            /\ spc = "fetch"
            /\ Len(fetches') = Len(fetches) + 1
            /\ SubSeq(fetches', 1, Len(fetches)) = fetches
            /\ fetches'[Len(fetches')].idx = i
            /\ i' = i
            /\ TuplesFor(i) = {}
            /\ \A k \in 1..(i - 1) : TuplesFor(k) # {}]_vars

\* C31 witness: the first url was fetched three times (two retries) and
\* emitted, then the second url was fetched twice.
C31_Witness ==
    /\ Len(urls) = 2
    /\ Len(fetches) = 5
    /\ \A j \in 1..3 : fetches[j].idx = 1
    /\ \A j \in 4..5 : fetches[j].idx = 2
    /\ TuplesFor(1) # {}
    /\ sout[1].retry_count = 2

(***************************************************************************)
(* Properties of manifest.py: appends and tolerant loads                   *)
(***************************************************************************)
\* a step in which save_manifest_entry is called
SaveStep == \E e \in Range(m_written') : m_written' = Append(m_written, e) /\ e # None

\* C32: a save_manifest_entry call adds one line, the JSON of its entry, at
\* the end of the file and changes no line the file had; so every line ever
\* written by a save is still in its place, and the file has grown by one
\* line per call.
C32_ManifestIsAppendOnly ==
    /\ [][SaveStep =>
            /\ Len(m_file') = Len(m_file) + 1
            /\ SubSeq(m_file', 1, Len(m_file)) = m_file
            /\ \E e \in m_written'[Len(m_written')] :
                 m_file'[Len(m_file')] = JsonLine(to_dict(e))]_vars
    /\ [](/\ Len(m_file) = Len(m_written)
          /\ \A j \in 1..Len(m_written) :
               \A e \in m_written[j] : m_file[j] = JsonLine(to_dict(e)))

\* C32 witness: an entry was saved, the file then gained a line that is not
\* an entry, and a second entry for the same url was saved after it: three
\* lines, the first still the first entry.
C32_Witness ==
    /\ Len(m_file) = 3
    /\ m_written[1] # None
    /\ m_written[2] = None
    /\ m_written[3] # None
    /\ \E e1 \in m_written[1], e3 \in m_written[3] :
         e1.url = e3.url /\ e1.status = "ok" /\ e3.status = "error"

\* the lines of the file that are entries (written by a save), as positions
ValidLines == {j \in 1..Len(m_written) : m_written[j] # None}
EntryAt(j) == CHOOSE e \in m_written[j] : TRUE

\* C33: load_manifest returns a map whatever the file holds. Every valid line
\* is loaded unless a later valid line of the same url replaces it, no matter
\* which blank, unparsable or key-less lines stand before, between or after;
\* every loaded entry comes from a valid line; a line with a url but no
\* status adds no entry for that url; a file that is missing or has no line
\* loads as the empty map.
C33_InvalidLinesAreSkipped ==
    /\ \A loaded \in m_loaded :
         /\ \A j \in ValidLines :
              \/ /\ EntryAt(j).url \in DOMAIN loaded
                 /\ loaded[EntryAt(j).url].ts = j
              \/ \E j2 \in ValidLines : j2 > j /\ EntryAt(j2).url = EntryAt(j).url
         /\ \A u \in DOMAIN loaded :
              /\ loaded[u].ts \in ValidLines
              /\ EntryAt(loaded[u].ts).url = u
              /\ EntryAt(loaded[u].ts).status = loaded[u].status
         /\ Cardinality(DOMAIN loaded) <= Cardinality(ValidLines)
         /\ m_file = <<>> => loaded = <<>>

\* C33 witness: the file holds an entry for B, then a line with a url but no
\* status, then an entry for A; the load maps B to the first line and A to the
\* third.
C33_Witness ==
    /\ Len(m_file) = 3
    /\ ValidLines = {1, 3}
    /\ m_file[2] = ForeignLine
    /\ EntryAt(1).url = "B"
    /\ EntryAt(3).url = "A"
    /\ \E loaded \in m_loaded :
         DOMAIN loaded = {"A", "B"} /\ loaded["A"].ts = 3 /\ loaded["B"].ts = 1

(***************************************************************************)
(* Properties of the manifest entries written by the three modes           *)
(***************************************************************************)
\* C34: every entry appended to manifest.jsonl, by the first pass or the
\* retry pass of the sequential mode, by the batch mode or by the crawl mode,
\* names a file when its status is ok; the line written for it carries the
\* same non-empty file.
C34_OkEntriesNameAFile ==
    \A j \in 1..Len(m_written) :
        \A e \in m_written[j] :
            e.status = "ok" =>
                /\ e.file # ""
                /\ m_file[j].kind = "json"
                /\ "file" \in DOMAIN m_file[j].obj
                /\ m_file[j].obj["file"] # ""

\* C34 witness: three entries were appended: an ok entry of the crawl mode
\* for a page without a url, an error entry, and an ok entry for url A.
C34_Witness ==
    /\ Len(m_written) = 3
    /\ \E e \in m_written[1] : e.status = "ok" /\ e.url = ""
    /\ \E e \in m_written[2] : e.status = "error" /\ e.file = ""
    /\ \E e \in m_written[3] : e.status = "ok" /\ e.url = "A"

(***************************************************************************)
(* Properties of with_retry                                                *)
(***************************************************************************)
\* the call ended in a network error or in one of the six statuses
RetryableCall(o) ==
    \/ o.kind = "RequestError"
    \/ o.kind = "HTTPStatusError" /\ o.code \in {408, 429, 500, 502, 503, 504}

\* the calls after which with_retry sleeps: retryable and not the final one
SleptAfter ==
    {j \in 1..Len(w_calls) : RetryableCall(w_calls[j]) /\ j <= w_max_retries}

ApiFailure(r) == r.error # None

LastLogOf(u) == MaxOf({k \in 1..Len(d_log) : d_log[k].url = u})

\* C37: when a do_scrape process over a file of distinct urls has ended,
\* load_manifest maps every url that the run fetched to an entry, and the
\* entry's status is "ok" exactly when the last fetch of that url in the run
\* (of the first pass, or of the retry pass if the url went through it) was
\* a success.
C37_ManifestTellsLastOutcome ==
    (dpc = "exit" /\ NoDuplicates(d_input)) =>
        \A k \in 1..Len(d_log) :
            d_log[k].emitted =>
                LET u == d_log[k].url
                    loaded == load_manifest(manifest)
                IN  /\ u \in DOMAIN loaded
                    /\ (loaded[u].status = "ok") <=> d_log[LastLogOf(u)].ok

\* C37 witness: a run over two urls with the overwrite flag has ended; A
\* failed in the first pass and succeeded in the retry pass, B failed in
\* both; the manifest loads A as ok and B as error.
C37_Witness ==
    /\ dpc = "exit"
    /\ overwrite
    /\ d_input = <<"A", "B">>
    /\ Len(d_log) = 4
    /\ d_log[1] = [pass |-> "first", url |-> "A", emitted |-> TRUE,
                   ok |-> FALSE, perm |-> FALSE]
    /\ d_log[3] = [pass |-> "retry", url |-> "A", emitted |-> TRUE,
                   ok |-> TRUE, perm |-> FALSE]
    /\ ~d_log[2].ok
    /\ ~d_log[4].ok
    /\ load_manifest(manifest)["A"].status = "ok"
    /\ load_manifest(manifest)["B"].status = "error"

(***************************************************************************)
(* Properties of the polling phase: failed requests                        *)
(***************************************************************************)
\* a step in which a pagination request fails
PageFailStep == Len(io') > Len(io) /\ io'[Len(io) + 1] = "page_fail"

\* C38: while a poll cycle follows its continuation links the job snapshot
\* stays the one of the cycle's status response. A pagination request that
\* fails raises nothing: the cycle's tuple is yielded right away with the
\* snapshot's status and the pages accumulated so far, and the run then stops
\* if that status is terminal and sleeps before the next status request
\* otherwise.
C38_PaginationFailureEndsTheChain ==
    /\ [][(pc = "page" /\ pc' = "page") => job' = job]_vars
    /\ [][PageFailStep =>
            /\ pc = "page"
            /\ exc' = None
            /\ io' = io \o <<"page_fail", "yield">>
            /\ out' = Append(out, [src |-> "poll", status |-> job.status,
                                   urls |-> new_results, got |-> cycle_got])
            /\ pc' = IF job.status \in {"completed", "failed", "cancelled"}
                     THEN "done" ELSE "sleep"]_vars
    /\ [](\A p \in 1..Len(io) :
            io[p] = "page_fail" =>
                /\ p < Len(io)
                /\ io[p + 1] = "yield"
                /\ p + 2 <= Len(io) => io[p + 2] = "sleep"
                /\ p + 3 <= Len(io) => io[p + 3] \in {"status", "status_fail"})

\* C38 witness: the status response listed A and linked to a page listing B,
\* whose own link failed; the tuple with A and B was yielded with the status
\* of the status response, and after a sleep the next cycle ended the run.
C38_Witness ==
    /\ io = <<"connect_fail", "status", "page", "page_fail", "yield", "sleep",
              "status", "yield">>
    /\ out[1] = [src |-> "poll", status |-> "scraping", urls |-> <<"A", "B">>,
                 got |-> {"A", "B"}]
    /\ pc = "done"

\* a step in which the status request of a poll cycle fails
StatusFailStep == Len(io') > Len(io) /\ io'[Len(io) + 1] = "status_fail"

\* C39: a failed status request raises FirecrawlError out of stream_crawl in
\* the same step: the tuples yielded so far stay as they are, no tuple is
\* added for the failed cycle, and the failed request is the last thing the
\* run does: no request, sleep or yield follows it.
C39_StatusFailureEndsTheRun ==
    /\ [][StatusFailStep =>
            /\ pc = "poll"
            /\ pc' = "raised"
            /\ exc' = {"FirecrawlError"}
            /\ out' = out
            /\ io' = Append(io, "status_fail")]_vars
    /\ [](\A p \in 1..Len(io) :
            io[p] = "status_fail" =>
                /\ p = Len(io)
                /\ pc = "raised"
                /\ exc = {"FirecrawlError"}
                /\ ~ENABLED NextCrawl)
    /\ [][pc = "raised" => (out' = out /\ io' = io /\ pc' = pc)]_vars

\* C39 witness: a poll cycle yielded page A, and after the sleep the status
\* request of the next cycle failed.
C39_Witness ==
    /\ io = <<"connect_fail", "status", "yield", "sleep", "status_fail">>
    /\ pc = "raised"
    /\ Len(out) = 1
    /\ out[1].urls = <<"A">>

(***************************************************************************)
(* Properties of stream_crawl: the push connection                         *)
(***************************************************************************)
\* what ends the push phase, as entries of io
PushExits == {"done", "error", "recv_fail", "close"}

\* a step that sends a request of the polling phase
PollRequestStep ==
    /\ Len(io') > Len(io)
    /\ io'[Len(io) + 1] \in {"status", "status_fail", "page", "page_fail"}

\* C40: the push connection is open exactly from the moment it was opened
\* until the push phase is left by a done frame, an error frame, an exception
\* while reading or decoding, or the consumer giving up the stream; it is
\* closed whenever the run is anywhere outside the push phase, in particular
\* once the fallback has started, and every request of the polling phase is
\* sent with the connection closed.
C40_PushConnectionIsClosed ==
    /\ [](ws_open <=>
            /\ \E p \in 1..Len(io) : io[p] = "connect"
            /\ \A p \in 1..Len(io) : io[p] \notin PushExits)
    /\ [](ws_open => pc = "recv")
    /\ [](fail_at # None => ~ws_open)
    /\ [][PollRequestStep => (~ws_open /\ ~ws_open')]_vars

\* C40 witness: the connection was opened and a page was yielded over it,
\* then reading failed; the connection is closed and the polling phase has
\* sent its status request.
C40_Witness ==
    /\ io = <<"connect", "document", "yield", "recv_fail", "status", "yield">>
    /\ ~ws_open
    /\ fail_at = {1}

====
